---- MODULE Spec2Model ----
(***************************************************************************)
(* Game of Life engine (classic and two-colony battle mode).               *)
(*                                                                         *)
(* The model follows GameEngine: a sparse grid kept as a Set of string     *)
(* keys "x,y", a Map from key to colony colour, the generation counter,    *)
(* the birth/death counts and captured list of the last advance, and the   *)
(* battle-mode flag.                                                       *)
(*                                                                         *)
(* Spec is the engine under every sequence of its public operations, on    *)
(* a few paintable cells; SpecStep is the advance taken as a function of   *)
(* the grid, from every grid on a small cross of cells.                    *)
(* SpecLists is the list mutators with lists that can name a cell twice;   *)
(* SpecRead is the accessors on the grids of SpecStep.                     *)
(* SpecSnap is a caller holding the state exportState() returned;          *)
(* SpecPatterns is the advance of patterns placed anywhere on the grid;    *)
(* SpecLoop is the render loop and the keys that drive the simulation.     *)
(*                                                                         *)
(* Conventions                                                             *)
(*   - a CellKey is the sequence of the characters of the string;          *)
(*   - a JS Set is a TLA+ set, a JS Map a function on its set of keys;     *)
(*   - `undefined` (a missing colour argument, a missing map entry) is 0,  *)
(*     which like undefined is falsy in `color || 1` and `&& color`;       *)
(*   - forEach over a Set visits its members once each; the order of the   *)
(*     visit is the order Pick chooses.                                    *)
(*                                                                         *)
(* SpecStore is the game store: its module-level engine, its writable      *)
(* stores (the fields of `store`; zoom, pan and speed, which no function   *)
(* modelled here reads or writes, are left out) and the mode store.  In    *)
(* the specifications of the engine alone the store does not move.         *)
(* SpecCaptures is the store in battle mode with room in its capture       *)
(* counters, SpecHistory the store in classic mode with a longer           *)
(* population history, SpecView the store as the handlers of the view      *)
(* call it, and SpecColors the engine's colour map under painting in       *)
(* either mode and the advance.                                            *)
(***************************************************************************)
EXTENDS Integers, Sequences, FiniteSets, TLC

VARIABLES
    livingCells,   \* Set<CellKey>
    cellColors,    \* Map<CellKey, ColonyColor>
    generation,    \* number
    lastBirths,    \* number
    lastDeaths,    \* number
    lastCaptured,  \* CapturedCell[]
    battleMode,    \* boolean
    returned,      \* the value returned by the last call of an engine method
    store,         \* the writable stores of the game store, by name
    snapshot,      \* the GameState a caller of exportState() holds
    view           \* the canvas component: its clock, lastStepTime, speed

engine == <<livingCells, cellColors, generation, lastBirths, lastDeaths,
            lastCaptured, battleMode>>
vars == <<livingCells, cellColors, generation, lastBirths, lastDeaths,
          lastCaptured, battleMode, returned, store, snapshot, view>>

\* what the callers of the engine hold
callers == <<store, snapshot, view>>

----------------------------------------------------------------------------
(* Bounds of the model *)

\* Spec calls nextGeneration() while generation < MaxGen
MaxGen == 1
\* SpecStep calls nextGeneration() while generation < MaxSteps
MaxSteps == 2
\* cells painted by the mutators have x in -1..MaxPaintX
MaxPaintX == 0
\* the cells of the grids SpecStep starts from have x in -1..MaxX
MaxX == 1
\* longest coordinate list handed to setCells / setColoredCells
MaxList == 1
\* longest coordinate list SpecLists hands to setCells / setColoredCells
MaxLongList == 2
\* SpecStore stops counting captures when capturedBy1 + capturedBy2 would
\* pass MaxCaptures
MaxCaptures == 1
\* the length populationHistory is cut to: 200 in the source, scaled down
MAX_HISTORY_LENGTH == 1
\* SpecCaptures stops counting captures when capturedBy1 + capturedBy2
\* would pass MaxCounted
MaxCounted == 2
\* the length SpecHistory cuts populationHistory to (200 in the source)
MaxHistory == 3
\* the cells SpecSnap paints and snapshots have x in -1..MaxSnapX
MaxSnapX == 0
\* SpecPatterns places a pattern with its corner at any (x, y) with x and y
\* in -MaxOffset..MaxOffset
MaxOffset == 10
\* the insertion orders of a living set are enumerated for sets of at
\* most MaxOrderCells cells
MaxOrderCells == 4
\* SpecLoop: animation frames come FrameMs or LongFrameMs after the one
\* before, up to the time MaxTime
FrameMs == 50
LongFrameMs == 1000
MaxTime == 1100

----------------------------------------------------------------------------
(* Constants of the program *)

\* `1000 / currentSpeed`
MsPerSecond == 1000
\* `writable<number>(10)`, and the min and max of the speed slider
InitialSpeed == 10
SpeedMin == 1
SpeedMax == 60

----------------------------------------------------------------------------
(* Keys: cellToKey / keyToCell *)

Digits == <<"0", "1", "2", "3", "4", "5", "6", "7", "8", "9">>

RECURSIVE NatToStr(_)
\* the decimal digits of a natural number, as template literals print them
NatToStr(n) ==
    IF n < 10 THEN <<Digits[n + 1]>>
    ELSE NatToStr(n \div 10) \o <<Digits[(n % 10) + 1]>>

NumToStr(n) == IF n < 0 THEN <<"-">> \o NatToStr(0 - n) ELSE NatToStr(n)

cellToKey(x, y) == NumToStr(x) \o <<",">> \o NumToStr(y)

DigitVal(ch) == CHOOSE d \in 0..9 : Digits[d + 1] = ch

RECURSIVE StrToNat(_)
StrToNat(s) ==
    IF Len(s) = 0 THEN 0
    ELSE 10 * StrToNat(SubSeq(s, 1, Len(s) - 1)) + DigitVal(s[Len(s)])

\* Number(s) for the strings cellToKey produces
StrToNum(s) ==
    IF Len(s) > 0 /\ s[1] = "-" THEN 0 - StrToNat(SubSeq(s, 2, Len(s)))
    ELSE StrToNat(s)

\* keyToCell that loses the sign of a coordinate
keyToCellUnsigned(key) ==
    LET comma == CHOOSE i \in 1..Len(key) : key[i] = ","
        abs(n) == IF n < 0 THEN 0 - n ELSE n
    IN  [x |-> abs(StrToNum(SubSeq(key, 1, comma - 1))),
         y |-> abs(StrToNum(SubSeq(key, comma + 1, Len(key))))]

keyToCell(key) ==
    LET comma == CHOOSE i \in 1..Len(key) : key[i] = ","
    IN  [x |-> StrToNum(SubSeq(key, 1, comma - 1)),
         y |-> StrToNum(SubSeq(key, comma + 1, Len(key)))]

----------------------------------------------------------------------------
(* Map and Set helpers *)

EmptyMap == [k \in {} |-> 0]

\* Map.get: 0 stands for undefined
MapGet(m, k) == IF k \in DOMAIN m THEN m[k] ELSE 0

MapSet(m, k, v) == [j \in (DOMAIN m) \cup {k} |-> IF j = k THEN v ELSE m[j]]

MapDelete(m, k) == [j \in (DOMAIN m) \ {k} |-> m[j]]

\* the member a forEach visits next
Pick(S) == CHOOSE k \in S : TRUE

\* dx / dy loops that run from -2 to 2
OffsetsWide == {-2, -1, 0, 1, 2}

\* the -1..1 offsets of the dx / dy loops
Offsets == {-1, 0, 1}

----------------------------------------------------------------------------
(* Neighbour counting *)

\* the eight (dx, dy) pairs the loops do not skip
NeighborOffsets == {d \in Offsets \X Offsets : ~(d[1] = 0 /\ d[2] = 0)}

\* countNeighbors without the `dx === 0 && dy === 0` skip: the cell counts itself
countNeighborsWithSelf(x, y) ==
    Cardinality({d \in Offsets \X Offsets : cellToKey(x + d[1], y + d[2]) \in livingCells})

\* countNeighbors: one count++ per offset whose key is in livingCells
countNeighbors(x, y) ==
    Cardinality({d \in NeighborOffsets : cellToKey(x + d[1], y + d[2]) \in livingCells})

\* `|| 2` for `|| 1`
OrTwo(color) == IF color = 0 THEN 2 ELSE color

\* `this.cellColors.get(key) || 1`
OrOne(color) == IF color = 0 THEN 1 ELSE color

\* countNeighborsByColor: a living neighbour counts for colour 1 when its
\* colour (or the default 1) is 1, for colour 2 otherwise
countNeighborsByColor(x, y) ==
    LET alive == {d \in NeighborOffsets : cellToKey(x + d[1], y + d[2]) \in livingCells}
        color1 == Cardinality({d \in alive :
                     OrOne(MapGet(cellColors, cellToKey(x + d[1], y + d[2]))) = 1})
        color2 == Cardinality({d \in alive :
                     OrOne(MapGet(cellColors, cellToKey(x + d[1], y + d[2]))) # 1})
    IN  [total |-> color1 + color2, color1 |-> color1, color2 |-> color2]

\* getMajorityColor with `>` for `>=`: a tie goes to colony 2
getMajorityColorStrict(color1, color2) == IF color1 > color2 THEN 1 ELSE 2

getMajorityColor(color1, color2) == IF color1 >= color2 THEN 1 ELSE 2

\* every living cell and its neighbours (dx, dy both in -1..1, centre included)
cellsToCheck ==
    UNION {{cellToKey(keyToCell(key).x + dx, keyToCell(key).y + dy) :
                dx \in Offsets, dy \in Offsets} : key \in livingCells}

----------------------------------------------------------------------------
(* The rule loops of nextGeneration and nextGenerationBattle *)

\* ClassicRule counting a death for every candidate that is not alive afterwards
ClassicRuleDeadCounted(key, acc) ==
    LET cell == keyToCell(key)
        neighbors == countNeighbors(cell.x, cell.y)
        isCurrentlyAlive == key \in livingCells
    IN  IF (isCurrentlyAlive /\ (neighbors = 2 \/ neighbors = 3))
        THEN [acc EXCEPT !.newLivingCells = @ \cup {key}]
        ELSE IF ~isCurrentlyAlive /\ neighbors = 3
             THEN [acc EXCEPT !.newLivingCells = @ \cup {key}, !.births = @ + 1]
             ELSE [acc EXCEPT !.deaths = @ + 1]

\* ClassicRule with `neighbors === 3` alone for survival
ClassicRuleSurvivesAt3(key, acc) ==
    LET cell == keyToCell(key)
        neighbors == countNeighbors(cell.x, cell.y)
        isCurrentlyAlive == key \in livingCells
    IN  IF isCurrentlyAlive
        THEN IF neighbors = 3
             THEN [acc EXCEPT !.newLivingCells = @ \cup {key}]
             ELSE [acc EXCEPT !.deaths = @ + 1]
        ELSE IF neighbors = 3
             THEN [acc EXCEPT !.newLivingCells = @ \cup {key}, !.births = @ + 1]
             ELSE acc

\* ClassicRule with `neighbors >= 2` for `neighbors === 3` in the birth branch
ClassicRuleBirthFrom2(key, acc) ==
    LET cell == keyToCell(key)
        neighbors == countNeighbors(cell.x, cell.y)
        isCurrentlyAlive == key \in livingCells
    IN  IF isCurrentlyAlive
        THEN IF neighbors = 2 \/ neighbors = 3
             THEN [acc EXCEPT !.newLivingCells = @ \cup {key}]
             ELSE [acc EXCEPT !.deaths = @ + 1]
        ELSE IF neighbors >= 2
             THEN [acc EXCEPT !.newLivingCells = @ \cup {key}, !.births = @ + 1]
             ELSE acc

\* one iteration of the classic forEach over cellsToCheck
ClassicRule(key, acc) ==
    LET cell == keyToCell(key)
        neighbors == countNeighbors(cell.x, cell.y)
        isCurrentlyAlive == key \in livingCells
    IN  IF isCurrentlyAlive
        THEN IF neighbors = 2 \/ neighbors = 3
             THEN [acc EXCEPT !.newLivingCells = @ \cup {key}]
             ELSE [acc EXCEPT !.deaths = @ + 1]
        ELSE IF neighbors = 3
             THEN [acc EXCEPT !.newLivingCells = @ \cup {key}, !.births = @ + 1]
             ELSE acc

RECURSIVE ClassicLoop(_, _)
ClassicLoop(todo, acc) ==
    IF todo = {} THEN acc
    ELSE LET key == Pick(todo)
         IN  ClassicLoop(todo \ {key}, ClassicRule(key, acc))

\* BattleRule pushing a captured record for every survivor, changed or not
BattleRuleAlwaysCaptured(key, acc) ==
    LET cell == keyToCell(key)
        n == countNeighborsByColor(cell.x, cell.y)
        isCurrentlyAlive == key \in livingCells
        oldColor == OrOne(MapGet(cellColors, key))
        newColor == getMajorityColor(n.color1, n.color2)
    IN  IF isCurrentlyAlive
        THEN IF n.total >= 2 /\ n.total <= 3
             THEN [acc EXCEPT
                     !.newLivingCells = @ \cup {key},
                     !.newCellColors = MapSet(@, key, newColor),
                     !.captured = Append(@, [x |-> cell.x, y |-> cell.y,
                                             fromColor |-> oldColor,
                                             toColor |-> newColor])]
             ELSE [acc EXCEPT !.deaths = @ + 1]
        ELSE IF n.total = 3
             THEN [acc EXCEPT
                     !.newLivingCells = @ \cup {key},
                     !.newCellColors = MapSet(@, key, newColor),
                     !.births = @ + 1]
             ELSE acc

\* BattleRule without `newCellColors.set` in the birth branch
BattleRuleBirthUncoloured(key, acc) ==
    LET cell == keyToCell(key)
        n == countNeighborsByColor(cell.x, cell.y)
        isCurrentlyAlive == key \in livingCells
        oldColor == OrOne(MapGet(cellColors, key))
        newColor == getMajorityColor(n.color1, n.color2)
    IN  IF isCurrentlyAlive
        THEN IF n.total >= 2 /\ n.total <= 3
             THEN [acc EXCEPT
                     !.newLivingCells = @ \cup {key},
                     !.newCellColors = MapSet(@, key, newColor),
                     !.captured = IF oldColor # newColor
                                  THEN Append(@, [x |-> cell.x, y |-> cell.y,
                                                  fromColor |-> oldColor,
                                                  toColor |-> newColor])
                                  ELSE @]
             ELSE [acc EXCEPT !.deaths = @ + 1]
        ELSE IF n.total = 3
             THEN [acc EXCEPT
                     !.newLivingCells = @ \cup {key},
                     !.births = @ + 1]
             ELSE acc

\* BattleRule with `total >= 3` for `total === 3` in the birth branch
BattleRuleBirthAtLeast3(key, acc) ==
    LET cell == keyToCell(key)
        n == countNeighborsByColor(cell.x, cell.y)
        isCurrentlyAlive == key \in livingCells
        oldColor == OrOne(MapGet(cellColors, key))
        newColor == getMajorityColor(n.color1, n.color2)
    IN  IF isCurrentlyAlive
        THEN IF n.total >= 2 /\ n.total <= 3
             THEN [acc EXCEPT
                     !.newLivingCells = @ \cup {key},
                     !.newCellColors = MapSet(@, key, newColor),
                     !.captured = IF oldColor # newColor
                                  THEN Append(@, [x |-> cell.x, y |-> cell.y,
                                                  fromColor |-> oldColor,
                                                  toColor |-> newColor])
                                  ELSE @]
             ELSE [acc EXCEPT !.deaths = @ + 1]
        ELSE IF n.total >= 3
             THEN [acc EXCEPT
                     !.newLivingCells = @ \cup {key},
                     !.newCellColors = MapSet(@, key, newColor),
                     !.births = @ + 1]
             ELSE acc

\* BattleRule testing color1 where it should test total in the survival
\* branch
BattleRuleSurvivalByColor1(key, acc) ==
    LET cell == keyToCell(key)
        n == countNeighborsByColor(cell.x, cell.y)
        isCurrentlyAlive == key \in livingCells
        oldColor == OrOne(MapGet(cellColors, key))
        newColor == getMajorityColor(n.color1, n.color2)
    IN  IF isCurrentlyAlive
        THEN IF n.color1 >= 2 /\ n.color1 <= 3
             THEN [acc EXCEPT
                     !.newLivingCells = @ \cup {key},
                     !.newCellColors = MapSet(@, key, newColor),
                     !.captured = IF oldColor # newColor
                                  THEN Append(@, [x |-> cell.x, y |-> cell.y,
                                                  fromColor |-> oldColor,
                                                  toColor |-> newColor])
                                  ELSE @]
             ELSE [acc EXCEPT !.deaths = @ + 1]
        ELSE IF n.total = 3
             THEN [acc EXCEPT
                     !.newLivingCells = @ \cup {key},
                     !.newCellColors = MapSet(@, key, newColor),
                     !.births = @ + 1]
             ELSE acc

\* one iteration of the battle forEach over cellsToCheck
BattleRule(key, acc) ==
    LET cell == keyToCell(key)
        n == countNeighborsByColor(cell.x, cell.y)
        isCurrentlyAlive == key \in livingCells
        oldColor == OrOne(MapGet(cellColors, key))
        newColor == getMajorityColor(n.color1, n.color2)
    IN  IF isCurrentlyAlive
        THEN IF n.total >= 2 /\ n.total <= 3
             THEN [acc EXCEPT
                     !.newLivingCells = @ \cup {key},
                     !.newCellColors = MapSet(@, key, newColor),
                     !.captured = IF oldColor # newColor
                                  THEN Append(@, [x |-> cell.x, y |-> cell.y,
                                                  fromColor |-> oldColor,
                                                  toColor |-> newColor])
                                  ELSE @]
             ELSE [acc EXCEPT !.deaths = @ + 1]
        ELSE IF n.total = 3
             THEN [acc EXCEPT
                     !.newLivingCells = @ \cup {key},
                     !.newCellColors = MapSet(@, key, newColor),
                     !.births = @ + 1]
             ELSE acc

RECURSIVE BattleLoop(_, _)
BattleLoop(todo, acc) ==
    IF todo = {} THEN acc
    ELSE LET key == Pick(todo)
         IN  BattleLoop(todo \ {key}, BattleRule(key, acc))

----------------------------------------------------------------------------
(* Statistics and battle result *)

RECURSIVE CountColors(_, _, _)
\* `cellColors.forEach(color => { if (color === 1) pop1++; else pop2++; })`
CountColors(m, todo, acc) ==
    IF todo = {} THEN acc
    ELSE LET key == Pick(todo)
         IN  CountColors(m, todo \ {key},
                 IF m[key] = 1 THEN [acc EXCEPT !.pop1 = @ + 1]
                 ELSE [acc EXCEPT !.pop2 = @ + 1])

ColorPopulations == CountColors(cellColors, DOMAIN cellColors, [pop1 |-> 0, pop2 |-> 0])

\* getStats(): population1, population2 and captured only in battle mode
getStats ==
    IF battleMode
    THEN [generation |-> generation, population |-> Cardinality(livingCells),
          births |-> lastBirths, deaths |-> lastDeaths,
          population1 |-> ColorPopulations.pop1,
          population2 |-> ColorPopulations.pop2,
          captured |-> lastCaptured]
    ELSE [generation |-> generation, population |-> Cardinality(livingCells),
          births |-> lastBirths, deaths |-> lastDeaths]

\* checkBattleResult with the two winners exchanged
checkBattleResultSwapped ==
    IF ~battleMode THEN "null"
    ELSE LET pop1 == ColorPopulations.pop1
             pop2 == ColorPopulations.pop2
         IN  IF pop1 = 0 /\ pop2 = 0 THEN "draw"
             ELSE IF pop1 = 0 THEN "1"
             ELSE IF pop2 = 0 THEN "2"
             ELSE "null"

\* checkBattleResult(): the winner, "null" for no winner
checkBattleResult ==
    IF ~battleMode THEN "null"
    ELSE LET pop1 == ColorPopulations.pop1
             pop2 == ColorPopulations.pop2
         IN  IF pop1 = 0 /\ pop2 = 0 THEN "draw"
             ELSE IF pop1 = 0 THEN "2"
             ELSE IF pop2 = 0 THEN "1"
             ELSE "null"

getCellColor(x, y) == MapGet(cellColors, cellToKey(x, y))

isAlive(x, y) == cellToKey(x, y) \in livingCells

\* getLivingCells(): the cells of the array, without their order
getLivingCells == {keyToCell(key) : key \in livingCells}

\* the array getColoredCells() builds from a living set and a colour map,
\* without its order
ColoredCellsOf(living, colors) ==
    {[x |-> keyToCell(key).x, y |-> keyToCell(key).y,
      color |-> OrOne(MapGet(colors, key))] : key \in living}

getColoredCells == ColoredCellsOf(livingCells, cellColors)

\* Infinity, -Infinity and the finite numbers, ordered as JS orders them
Infinity == <<1, 0>>
NegInfinity == <<-1, 0>>
Num(n) == <<0, n>>
Less(a, b) == a[1] < b[1] \/ (a[1] = 0 /\ b[1] = 0 /\ a[2] < b[2])
MathMin(a, b) == IF Less(b, a) THEN b ELSE a
MathMax(a, b) == IF Less(a, b) THEN b ELSE a

RECURSIVE BoundsLoop(_, _)
\* the forEach of getBounds()
BoundsLoop(todo, acc) ==
    IF todo = {} THEN acc
    ELSE LET key == Pick(todo)
             cell == keyToCell(key)
         IN  BoundsLoop(todo \ {key},
                 [minX |-> MathMin(acc.minX, Num(cell.x)),
                  maxX |-> MathMax(acc.maxX, Num(cell.x)),
                  minY |-> MathMin(acc.minY, Num(cell.y)),
                  maxY |-> MathMax(acc.maxY, Num(cell.y))])

\* getBounds() with the four accumulators starting at 0
getBoundsFromZero ==
    IF Cardinality(livingCells) = 0 THEN "null"
    ELSE LET acc == BoundsLoop(livingCells, [minX |-> Num(0), maxX |-> Num(0),
                                             minY |-> Num(0), maxY |-> Num(0)])
         IN  [minX |-> acc.minX[2], maxX |-> acc.maxX[2],
              minY |-> acc.minY[2], maxY |-> acc.maxY[2]]

\* getBounds(): "null" for null
getBounds ==
    IF Cardinality(livingCells) = 0 THEN "null"
    ELSE LET acc == BoundsLoop(livingCells,
                               [minX |-> Infinity, maxX |-> NegInfinity,
                                minY |-> Infinity, maxY |-> NegInfinity])
         IN  [minX |-> acc.minX[2], maxX |-> acc.maxX[2],
              minY |-> acc.minY[2], maxY |-> acc.maxY[2]]

getGeneration == generation

getPopulation == Cardinality(livingCells)

\* exportState(): the Set and the Map are copies, which values are
exportState ==
    [livingCells |-> livingCells, cellColors |-> cellColors,
     generation |-> generation, population |-> Cardinality(livingCells),
     births |-> lastBirths, deaths |-> lastDeaths]

\* the fields of an engine constructed without initial cells
NewEngine ==
    [livingCells |-> {}, cellColors |-> EmptyMap, generation |-> 0,
     lastBirths |-> 0, lastDeaths |-> 0, lastCaptured |-> <<>>,
     battleMode |-> FALSE]

\* importState() that does not take the counts of the last advance
importStateNoCounts(e, state) ==
    [e EXCEPT !.livingCells = state.livingCells,
              !.cellColors = state.cellColors,
              !.generation = state.generation]

\* importState() on an engine with the fields e: the fields afterwards
importState(e, state) ==
    [e EXCEPT !.livingCells = state.livingCells,
              !.cellColors = state.cellColors,
              !.generation = state.generation,
              !.lastBirths = state.births,
              !.lastDeaths = state.deaths]

----------------------------------------------------------------------------
(* Inputs of the calls *)

\* the coordinates the mutators are called with
PaintCells == {<<x, 0>> : x \in -1..MaxPaintX} \cup {<<0, -1>>}

\* a colour argument: 1, 2 or left out (0)
ColorArgs == {0, 1, 2}

ColonyColors == {1, 2}

RECURSIVE SeqsUpTo(_, _)
\* the sequences over S of length at most n
SeqsUpTo(S, n) ==
    IF n = 0 THEN {<<>>}
    ELSE LET shorter == SeqsUpTo(S, n - 1)
         IN  shorter \cup {Append(q, e) : q \in {r \in shorter : Len(r) = n - 1}, e \in S}

\* Cell[] arguments of setCells
CellLists == SeqsUpTo({[x |-> c[1], y |-> c[2]] : c \in PaintCells}, MaxList)

\* ColoredCell[] arguments of setColoredCells
ColoredCellLists ==
    SeqsUpTo({[x |-> c[1], y |-> c[2], color |-> col] :
                 c \in PaintCells, col \in ColonyColors}, MaxList)

\* the partial colourings of a set of keys
Colorings(keys) == UNION {[d -> ColonyColors] : d \in SUBSET keys}

\* GameState arguments of importState: what exportState() returns after
\* g advances of the empty grid followed by painting at most one cell
ImportStates ==
    UNION {{[livingCells |-> living, cellColors |-> colors, generation |-> g,
      population |-> Cardinality(living), births |-> 0, deaths |-> 0] :
        colors \in Colorings(living)} :
        living \in {l \in SUBSET {cellToKey(c[1], c[2]) : c \in PaintCells} :
                       Cardinality(l) <= 1},
        g \in 0..MaxGen}

Void == [kind |-> "void", val |-> 0]

\* no snapshot has been taken: held is false, and state is what a new
\* engine would export; sameSet / sameMap say that the Set / the Map of
\* the snapshot is the very object the engine holds in its field
NoSnapshot ==
    [held |-> FALSE,
     state |-> [livingCells |-> {}, cellColors |-> EmptyMap, generation |-> 0,
                population |-> 0, births |-> 0, deaths |-> 0],
     sameSet |-> FALSE, sameMap |-> FALSE]

\* the component before the first animation frame: timestamp is the
\* argument of the last call of loop(), renderedAt that of the last call
\* in which render() ran (-1: none), currentSpeed the value of the speed
\* store
ViewInit ==
    [timestamp |-> 0, lastStepTime |-> 0, renderedAt |-> 0 - 1,
     currentSpeed |-> InitialSpeed]

----------------------------------------------------------------------------
(* The game store: initial values and updateStats *)

\* the initial values of the writable stores
StoreInit ==
    [isRunning |-> FALSE, generation |-> 0, population |-> 0, births |-> 0,
     deaths |-> 0, population1 |-> 0, population2 |-> 0, paintColor |-> 1,
     capturedCells |-> <<>>, capturedBy1 |-> 0, capturedBy2 |-> 0,
     populationHistory |-> <<>>, gameMode |-> "classic", battleWinner |-> "null"]

GameModes == {"classic", "battle"}

\* the number of records of the captured list with toColor = col
CapturedTo(captured, col) ==
    Cardinality({i \in 1..Len(captured) : captured[i].toColor = col})

\* updateStats() leaving isRunning as it is when it declares a winner
updateStatsKeepsRunning(st, stats, result) ==
    LET hasCaptured == "captured" \in DOMAIN stats
        newHistory == Append(st.populationHistory, stats.population)
        won == st.gameMode = "battle" /\ stats.generation > 0 /\ result # "null"
    IN  [st EXCEPT
           !.generation = stats.generation,
           !.population = stats.population,
           !.births = stats.births,
           !.deaths = stats.deaths,
           !.population1 = IF "population1" \in DOMAIN stats THEN stats.population1 ELSE @,
           !.population2 = IF "population2" \in DOMAIN stats THEN stats.population2 ELSE @,
           !.capturedCells = IF hasCaptured THEN stats.captured ELSE <<>>,
           !.capturedBy1 = IF hasCaptured THEN @ + CapturedTo(stats.captured, 1) ELSE @,
           !.capturedBy2 = IF hasCaptured
                           THEN @ + Len(stats.captured) - CapturedTo(stats.captured, 1)
                           ELSE @,
           !.populationHistory = IF Len(newHistory) > MAX_HISTORY_LENGTH
                                 THEN Tail(newHistory) ELSE newHistory,
           !.battleWinner = IF won THEN result ELSE @]

\* updateStats() with `newHistory.pop()` for `newHistory.shift()`: the
\* entry just appended is the one dropped
updateStatsDropsNewest(st, stats, result, maxLength) ==
    LET hasCaptured == "captured" \in DOMAIN stats
        newHistory == Append(st.populationHistory, stats.population)
        won == st.gameMode = "battle" /\ stats.generation > 0 /\ result # "null"
    IN  [st EXCEPT
           !.generation = stats.generation,
           !.population = stats.population,
           !.births = stats.births,
           !.deaths = stats.deaths,
           !.population1 = IF "population1" \in DOMAIN stats THEN stats.population1 ELSE @,
           !.population2 = IF "population2" \in DOMAIN stats THEN stats.population2 ELSE @,
           !.capturedCells = IF hasCaptured THEN stats.captured ELSE <<>>,
           !.capturedBy1 = IF hasCaptured THEN @ + CapturedTo(stats.captured, 1) ELSE @,
           !.capturedBy2 = IF hasCaptured
                           THEN @ + Len(stats.captured) - CapturedTo(stats.captured, 1)
                           ELSE @,
           !.populationHistory = IF Len(newHistory) > maxLength
                                 THEN SubSeq(newHistory, 1, Len(newHistory) - 1)
                                 ELSE newHistory,
           !.battleWinner = IF won THEN result ELSE @,
           !.isRunning = IF won THEN FALSE ELSE @]

\* updateStats(stats) with the history cut to maxLength entries: the
\* stores afterwards; result is what engine.checkBattleResult() returns
\* when updateStats runs
updateStatsUpTo(st, stats, result, maxLength) ==
    LET hasCaptured == "captured" \in DOMAIN stats
        newHistory == Append(st.populationHistory, stats.population)
        won == st.gameMode = "battle" /\ stats.generation > 0 /\ result # "null"
    IN  [st EXCEPT
           !.generation = stats.generation,
           !.population = stats.population,
           !.births = stats.births,
           !.deaths = stats.deaths,
           !.population1 = IF "population1" \in DOMAIN stats THEN stats.population1 ELSE @,
           !.population2 = IF "population2" \in DOMAIN stats THEN stats.population2 ELSE @,
           !.capturedCells = IF hasCaptured THEN stats.captured ELSE <<>>,
           !.capturedBy1 = IF hasCaptured THEN @ + CapturedTo(stats.captured, 1) ELSE @,
           !.capturedBy2 = IF hasCaptured
                           THEN @ + Len(stats.captured) - CapturedTo(stats.captured, 1)
                           ELSE @,
           !.populationHistory = IF Len(newHistory) > maxLength
                                 THEN Tail(newHistory) ELSE newHistory,
           !.battleWinner = IF won THEN result ELSE @,
           !.isRunning = IF won THEN FALSE ELSE @]

\* updateStats(stats)
updateStats(st, stats, result) ==
    updateStatsUpTo(st, stats, result, MAX_HISTORY_LENGTH)

----------------------------------------------------------------------------
(* The operations of GameEngine *)

Init ==
    /\ store = StoreInit
    /\ snapshot = NoSnapshot
    /\ view = ViewInit
    /\ livingCells = {}
    /\ cellColors = EmptyMap
    /\ generation = 0
    /\ lastBirths = 0
    /\ lastDeaths = 0
    /\ lastCaptured = <<>>
    /\ battleMode = FALSE
    /\ returned = Void

\* setBattleMode() without the `cellColors.clear()` of the switch to classic
SetBattleModeKeepsColors(enabled) ==
    /\ battleMode' = enabled
    /\ returned' = Void
    /\ UNCHANGED <<livingCells, cellColors, generation, lastBirths, lastDeaths,
                   lastCaptured>>

SetBattleMode(enabled) ==
    /\ battleMode' = enabled
    /\ cellColors' = IF ~enabled THEN EmptyMap ELSE cellColors
    /\ returned' = Void
    /\ UNCHANGED <<livingCells, generation, lastBirths, lastDeaths, lastCaptured>>

RECURSIVE AddCells(_, _, _)
\* cells.forEach(cell => livingCells.add(cellToKey(cell.x, cell.y)))
AddCells(cells, i, living) ==
    IF i > Len(cells) THEN living
    ELSE AddCells(cells, i + 1, living \cup {cellToKey(cells[i].x, cells[i].y)})

SetCells(cells) ==
    /\ livingCells' = AddCells(cells, 1, livingCells)
    /\ returned' = Void
    /\ UNCHANGED <<cellColors, generation, lastBirths, lastDeaths, lastCaptured,
                   battleMode>>

RECURSIVE AddColorsFirstWins(_, _, _)
\* AddColors that keeps the colour a key already has
AddColorsFirstWins(cells, i, colors) ==
    IF i > Len(cells) THEN colors
    ELSE LET key == cellToKey(cells[i].x, cells[i].y)
         IN  AddColorsFirstWins(cells, i + 1,
                 IF key \in DOMAIN colors THEN colors
                 ELSE MapSet(colors, key, cells[i].color))

RECURSIVE AddColors(_, _, _)
\* cells.forEach(cell => cellColors.set(key, cell.color))
AddColors(cells, i, colors) ==
    IF i > Len(cells) THEN colors
    ELSE AddColors(cells, i + 1,
                   MapSet(colors, cellToKey(cells[i].x, cells[i].y), cells[i].color))

SetColoredCells(cells) ==
    /\ livingCells' = AddCells(cells, 1, livingCells)
    /\ cellColors' = AddColors(cells, 1, cellColors)
    /\ returned' = Void
    /\ UNCHANGED <<generation, lastBirths, lastDeaths, lastCaptured, battleMode>>

\* clear() without `this.generation = 0`
ClearKeepsGeneration ==
    /\ livingCells' = {}
    /\ cellColors' = EmptyMap
    /\ lastBirths' = 0
    /\ lastDeaths' = 0
    /\ lastCaptured' = <<>>
    /\ returned' = Void
    /\ UNCHANGED <<generation, battleMode>>

\* clear() without `this.lastCaptured = []`
ClearKeepsCaptured ==
    /\ livingCells' = {}
    /\ cellColors' = EmptyMap
    /\ generation' = 0
    /\ lastBirths' = 0
    /\ lastDeaths' = 0
    /\ returned' = Void
    /\ UNCHANGED <<lastCaptured, battleMode>>

Clear ==
    /\ livingCells' = {}
    /\ cellColors' = EmptyMap
    /\ generation' = 0
    /\ lastBirths' = 0
    /\ lastDeaths' = 0
    /\ lastCaptured' = <<>>
    /\ returned' = Void
    /\ UNCHANGED battleMode

\* toggleCell() returning whether the cell was alive before the call
ToggleCellReturnsOld(x, y, color) ==
    LET key == cellToKey(x, y)
    IN  /\ IF key \in livingCells
           THEN /\ livingCells' = livingCells \ {key}
                /\ cellColors' = MapDelete(cellColors, key)
                /\ returned' = [kind |-> "boolean", val |-> TRUE]
           ELSE /\ livingCells' = livingCells \cup {key}
                /\ cellColors' = IF battleMode /\ color # 0
                                 THEN MapSet(cellColors, key, color)
                                 ELSE cellColors
                /\ returned' = [kind |-> "boolean", val |-> FALSE]
        /\ UNCHANGED <<generation, lastBirths, lastDeaths, lastCaptured, battleMode>>

ToggleCell(x, y, color) ==
    LET key == cellToKey(x, y)
    IN  /\ IF key \in livingCells
           THEN /\ livingCells' = livingCells \ {key}
                /\ cellColors' = MapDelete(cellColors, key)
                /\ returned' = [kind |-> "boolean", val |-> FALSE]
           ELSE /\ livingCells' = livingCells \cup {key}
                /\ cellColors' = IF battleMode /\ color # 0
                                 THEN MapSet(cellColors, key, color)
                                 ELSE cellColors
                /\ returned' = [kind |-> "boolean", val |-> TRUE]
        /\ UNCHANGED <<generation, lastBirths, lastDeaths, lastCaptured, battleMode>>

\* setCell() that also empties the captured list of the last advance
SetCellClearsCaptured(x, y, color) ==
    LET key == cellToKey(x, y)
    IN  /\ livingCells' = livingCells \cup {key}
        /\ cellColors' = IF battleMode /\ color # 0
                         THEN MapSet(cellColors, key, color)
                         ELSE cellColors
        /\ lastCaptured' = <<>>
        /\ returned' = Void
        /\ UNCHANGED <<generation, lastBirths, lastDeaths, battleMode>>

SetCell(x, y, color) ==
    LET key == cellToKey(x, y)
    IN  /\ livingCells' = livingCells \cup {key}
        /\ cellColors' = IF battleMode /\ color # 0
                         THEN MapSet(cellColors, key, color)
                         ELSE cellColors
        /\ returned' = Void
        /\ UNCHANGED <<generation, lastBirths, lastDeaths, lastCaptured, battleMode>>

\* killCell() without `this.cellColors.delete(key)`
KillCellKeepsColor(x, y) ==
    /\ livingCells' = livingCells \ {cellToKey(x, y)}
    /\ returned' = Void
    /\ UNCHANGED <<cellColors, generation, lastBirths, lastDeaths, lastCaptured,
                   battleMode>>

KillCell(x, y) ==
    LET key == cellToKey(x, y)
    IN  /\ livingCells' = livingCells \ {key}
        /\ cellColors' = MapDelete(cellColors, key)
        /\ returned' = Void
        /\ UNCHANGED <<generation, lastBirths, lastDeaths, lastCaptured, battleMode>>

\* the classic branch returning early, without counting a generation,
\* when no cell is alive
NextGenerationClassicSkipsEmpty ==
    IF livingCells = {}
    THEN UNCHANGED engine
    ELSE \E r \in {ClassicLoop(cellsToCheck,
                               [newLivingCells |-> {}, births |-> 0, deaths |-> 0])} :
             /\ livingCells' = r.newLivingCells
             /\ generation' = generation + 1
             /\ lastBirths' = r.births
             /\ lastDeaths' = r.deaths
             /\ UNCHANGED <<cellColors, lastCaptured, battleMode>>

\* the classic branch of nextGeneration()
NextGenerationClassic ==
    \E r \in {ClassicLoop(cellsToCheck,
                          [newLivingCells |-> {}, births |-> 0, deaths |-> 0])} :
        /\ livingCells' = r.newLivingCells
        /\ generation' = generation + 1
        /\ lastBirths' = r.births
        /\ lastDeaths' = r.deaths
        /\ UNCHANGED <<cellColors, lastCaptured, battleMode>>

\* nextGenerationBattle() returning early, without an advance, once the
\* battle is decided
NextGenerationBattleLocked ==
    IF checkBattleResult # "null"
    THEN UNCHANGED engine
    ELSE \E r \in {BattleLoop(cellsToCheck,
                              [newLivingCells |-> {}, newCellColors |-> EmptyMap,
                               captured |-> <<>>, births |-> 0, deaths |-> 0])} :
             /\ livingCells' = r.newLivingCells
             /\ cellColors' = r.newCellColors
             /\ generation' = generation + 1
             /\ lastBirths' = r.births
             /\ lastDeaths' = r.deaths
             /\ lastCaptured' = r.captured
             /\ UNCHANGED battleMode

\* nextGenerationBattle() pushing onto this.lastCaptured instead of a new
\* array
NextGenerationBattleKeepsCaptured ==
    \E r \in {BattleLoop(cellsToCheck,
                         [newLivingCells |-> {}, newCellColors |-> EmptyMap,
                          captured |-> <<>>, births |-> 0, deaths |-> 0])} :
        /\ livingCells' = r.newLivingCells
        /\ cellColors' = r.newCellColors
        /\ generation' = generation + 1
        /\ lastBirths' = r.births
        /\ lastDeaths' = r.deaths
        /\ lastCaptured' = lastCaptured \o r.captured
        /\ UNCHANGED battleMode

\* nextGenerationBattle() writing the new colours into this.cellColors
\* instead of a new Map
NextGenerationBattleSameMap ==
    \E r \in {BattleLoop(cellsToCheck,
                         [newLivingCells |-> {}, newCellColors |-> cellColors,
                          captured |-> <<>>, births |-> 0, deaths |-> 0])} :
        /\ livingCells' = r.newLivingCells
        /\ cellColors' = r.newCellColors
        /\ generation' = generation + 1
        /\ lastBirths' = r.births
        /\ lastDeaths' = r.deaths
        /\ lastCaptured' = r.captured
        /\ UNCHANGED battleMode

NextGenerationBattle ==
    \E r \in {BattleLoop(cellsToCheck,
                         [newLivingCells |-> {}, newCellColors |-> EmptyMap,
                          captured |-> <<>>, births |-> 0, deaths |-> 0])} :
        /\ livingCells' = r.newLivingCells
        /\ cellColors' = r.newCellColors
        /\ generation' = generation + 1
        /\ lastBirths' = r.births
        /\ lastDeaths' = r.deaths
        /\ lastCaptured' = r.captured
        /\ UNCHANGED battleMode

NextGeneration ==
    /\ IF battleMode THEN NextGenerationBattle ELSE NextGenerationClassic
    /\ returned' = [kind |-> "stats", val |-> getStats']

ImportState(state) ==
    /\ livingCells' = state.livingCells
    /\ cellColors' = state.cellColors
    /\ generation' = state.generation
    /\ lastBirths' = state.births
    /\ lastDeaths' = state.deaths
    /\ returned' = Void
    /\ UNCHANGED <<lastCaptured, battleMode>>

CheckBattleResult ==
    /\ returned' = [kind |-> "result", val |-> checkBattleResult]
    /\ UNCHANGED engine

\* the accessors: each returns its value and assigns no field
IsAlive(x, y) ==
    /\ returned' = [kind |-> "isAlive", val |-> isAlive(x, y)]
    /\ UNCHANGED engine

GetCellColor(x, y) ==
    /\ returned' = [kind |-> "getCellColor", val |-> getCellColor(x, y)]
    /\ UNCHANGED engine

GetLivingCells ==
    /\ returned' = [kind |-> "getLivingCells", val |-> getLivingCells]
    /\ UNCHANGED engine

GetColoredCells ==
    /\ returned' = [kind |-> "getColoredCells", val |-> getColoredCells]
    /\ UNCHANGED engine

GetBounds ==
    /\ returned' = [kind |-> "getBounds", val |-> getBounds]
    /\ UNCHANGED engine

\* getStats() emptying the captured list it has reported
GetStatsConsumesCaptured ==
    /\ returned' = [kind |-> "getStats", val |-> getStats]
    /\ lastCaptured' = <<>>
    /\ UNCHANGED <<livingCells, cellColors, generation, lastBirths, lastDeaths,
                   battleMode>>

GetStats ==
    /\ returned' = [kind |-> "getStats", val |-> getStats]
    /\ UNCHANGED engine

GetGeneration ==
    /\ returned' = [kind |-> "getGeneration", val |-> getGeneration]
    /\ UNCHANGED engine

GetPopulation ==
    /\ returned' = [kind |-> "getPopulation", val |-> getPopulation]
    /\ UNCHANGED engine

ExportState ==
    /\ returned' = [kind |-> "exportState", val |-> exportState]
    /\ UNCHANGED engine

Next ==
    \/ UNCHANGED callers /\ \E enabled \in BOOLEAN : SetBattleMode(enabled)
    \/ UNCHANGED callers /\ \E cells \in CellLists : SetCells(cells)
    \/ UNCHANGED callers /\ \E cells \in ColoredCellLists : SetColoredCells(cells)
    \/ UNCHANGED callers /\ Clear
    \/ UNCHANGED callers /\ \E c \in PaintCells, color \in ColorArgs : ToggleCell(c[1], c[2], color)
    \/ UNCHANGED callers /\ \E c \in PaintCells, color \in ColorArgs : SetCell(c[1], c[2], color)
    \/ UNCHANGED callers /\ \E c \in PaintCells : KillCell(c[1], c[2])
    \/ UNCHANGED callers /\ generation < MaxGen /\ NextGeneration
    \/ UNCHANGED callers /\ \E state \in ImportStates : ImportState(state)
    \/ UNCHANGED callers /\ CheckBattleResult

Spec == Init /\ [][Next]_vars

----------------------------------------------------------------------------
(* The advance as a function of the grid: the engine is constructed with   *)
(* any set of cells of StepCells, in classic mode or in battle mode with   *)
(* any cells coloured (setColoredCells) and the others not (setCells), and *)
(* is then advanced.                                                       *)

StepCells == {<<x, 0>> : x \in -1..MaxX} \cup {<<0, -1>>, <<0, 1>>}

StepKeys == {cellToKey(c[1], c[2]) : c \in StepCells}

InitStep ==
    /\ store = StoreInit
    /\ snapshot = NoSnapshot
    /\ view = ViewInit
    /\ battleMode \in BOOLEAN
    /\ livingCells \in SUBSET StepKeys
    /\ cellColors \in IF battleMode THEN Colorings(livingCells) ELSE {EmptyMap}
    /\ generation = 0
    /\ lastBirths = 0
    /\ lastDeaths = 0
    /\ lastCaptured = <<>>
    /\ returned = Void

NextStep ==
    \/ UNCHANGED callers /\ generation < MaxSteps /\ NextGeneration
    \/ UNCHANGED callers /\ CheckBattleResult

SpecStep == InitStep /\ [][NextStep]_vars

----------------------------------------------------------------------------
(* The list mutators called with lists long enough to name a cell twice,   *)
(* on the grids that painting, killing and one advance produce.            *)

LongCellLists == SeqsUpTo({[x |-> c[1], y |-> c[2]] : c \in PaintCells}, MaxLongList)

LongColoredCellLists ==
    SeqsUpTo({[x |-> c[1], y |-> c[2], color |-> col] :
                 c \in PaintCells, col \in ColonyColors}, MaxLongList)

NextLists ==
    \/ UNCHANGED callers /\ \E enabled \in BOOLEAN : SetBattleMode(enabled)
    \/ UNCHANGED callers /\ \E cells \in LongCellLists : SetCells(cells)
    \/ UNCHANGED callers /\ \E cells \in LongColoredCellLists : SetColoredCells(cells)
    \/ UNCHANGED callers /\ \E c \in PaintCells : KillCell(c[1], c[2])
    \/ UNCHANGED callers /\ generation < MaxGen /\ NextGeneration
    \/ UNCHANGED callers /\ Clear

SpecLists == Init /\ [][NextLists]_vars

----------------------------------------------------------------------------
(* The accessors, called on every grid of SpecStep and on the grids its    *)
(* advances produce.  The advances are made first and the accessors are    *)
(* called on the grid they leave, in any number and order.                 *)

NextRead ==
    \/ UNCHANGED callers /\ generation < MaxSteps /\ returned.kind \in {"void", "stats"}
                       /\ NextGeneration
    \/ UNCHANGED callers /\ \E c \in StepCells : IsAlive(c[1], c[2])
    \/ UNCHANGED callers /\ \E c \in StepCells : GetCellColor(c[1], c[2])
    \/ UNCHANGED callers /\ GetLivingCells
    \/ UNCHANGED callers /\ GetColoredCells
    \/ UNCHANGED callers /\ GetBounds
    \/ UNCHANGED callers /\ GetStats
    \/ UNCHANGED callers /\ GetGeneration
    \/ UNCHANGED callers /\ GetPopulation
    \/ UNCHANGED callers /\ CheckBattleResult
    \/ UNCHANGED callers /\ ExportState

SpecRead == InitStep /\ [][NextRead]_vars

----------------------------------------------------------------------------
(* The functions of the game store.  Each calls a method of the engine,    *)
(* reads getStats() and checkBattleResult() from the engine as the method  *)
(* left it, and hands them to updateStats.                                 *)

\* the stores after `updateStats(engine.getStats())`, on the engine as the
\* step leaves it; the capture counters stay within MaxCaptures
UpdateStats ==
    \E st \in {updateStats(store, getStats', checkBattleResult')} :
        /\ st.capturedBy1 + st.capturedBy2 <= MaxCaptures
        /\ store' = st

StoreToggleCell(x, y) ==
    /\ ToggleCell(x, y, store.paintColor)
    /\ UpdateStats

StoreSetCell(x, y) ==
    /\ SetCell(x, y, store.paintColor)
    /\ UpdateStats

\* step()
Step ==
    /\ NextGeneration
    /\ UpdateStats

\* reset() without `populationHistory.set([])`
ResetKeepsHistory ==
    /\ Clear
    /\ store' = [store EXCEPT
                   !.isRunning = FALSE, !.generation = 0, !.population = 0,
                   !.births = 0, !.deaths = 0, !.population1 = 0,
                   !.population2 = 0, !.capturedBy1 = 0, !.capturedBy2 = 0,
                   !.battleWinner = "null"]

\* reset()
Reset ==
    /\ Clear
    /\ store' = [store EXCEPT
                   !.isRunning = FALSE, !.generation = 0, !.population = 0,
                   !.births = 0, !.deaths = 0, !.population1 = 0,
                   !.population2 = 0, !.capturedBy1 = 0, !.capturedBy2 = 0,
                   !.populationHistory = <<>>, !.battleWinner = "null"]

Play ==
    /\ store' = [store EXCEPT !.isRunning = TRUE]
    /\ UNCHANGED <<engine, returned>>

Pause ==
    /\ store' = [store EXCEPT !.isRunning = FALSE]
    /\ UNCHANGED <<engine, returned>>

ToggleRunning ==
    /\ store' = [store EXCEPT !.isRunning = ~@]
    /\ UNCHANGED <<engine, returned>>

StoreSetCells(cells) ==
    /\ SetCells(cells)
    /\ UpdateStats

StoreSetColoredCells(cells) ==
    /\ SetColoredCells(cells)
    /\ UpdateStats

SetPaintColor(color) ==
    /\ store' = [store EXCEPT !.paintColor = color]
    /\ UNCHANGED <<engine, returned>>

\* setGameMode() without `battleWinner.set(null)`
SetGameModeKeepsWinner(mode) ==
    /\ IF mode # store.gameMode
       THEN SetBattleMode(mode = "battle")
       ELSE UNCHANGED <<engine, returned>>
    /\ store' = [store EXCEPT !.gameMode = mode]

\* setGameMode(mode): a writable store calls its subscribers, here the
\* one that calls engine.setBattleMode, when the value set differs from
\* the value it holds
SetGameMode(mode) ==
    /\ IF mode # store.gameMode
       THEN SetBattleMode(mode = "battle")
       ELSE UNCHANGED <<engine, returned>>
    /\ store' = [store EXCEPT !.gameMode = mode, !.battleWinner = "null"]

ToggleGameMode ==
    /\ SetBattleMode(store.gameMode = "classic")
    /\ store' = [store EXCEPT
                   !.gameMode = IF @ = "classic" THEN "battle" ELSE "classic",
                   !.battleWinner = "null"]

\* the step() the render loop makes: only while isRunning is true (the
\* speed is positive and the step interval is taken to have elapsed)
LoopStep ==
    /\ store.isRunning
    /\ Step

NextStore ==
    \/ UNCHANGED <<snapshot, view>> /\ \E c \in PaintCells : StoreToggleCell(c[1], c[2])
    \/ UNCHANGED <<snapshot, view>> /\ \E c \in PaintCells : StoreSetCell(c[1], c[2])
    \/ UNCHANGED <<snapshot, view>> /\ generation < MaxGen /\ Step
    \/ UNCHANGED <<snapshot, view>> /\ generation < MaxGen /\ LoopStep
    \/ UNCHANGED <<snapshot, view>> /\ Reset
    \/ UNCHANGED <<snapshot, view>> /\ Play
    \/ UNCHANGED <<snapshot, view>> /\ Pause
    \/ UNCHANGED <<snapshot, view>> /\ ToggleRunning
    \/ UNCHANGED <<snapshot, view>> /\ \E cells \in CellLists : StoreSetCells(cells)
    \/ UNCHANGED <<snapshot, view>> /\ \E cells \in ColoredCellLists : StoreSetColoredCells(cells)
    \/ UNCHANGED <<snapshot, view>> /\ \E color \in ColonyColors : SetPaintColor(color)
    \/ UNCHANGED <<snapshot, view>> /\ \E mode \in GameModes : SetGameMode(mode)
    \/ UNCHANGED <<snapshot, view>> /\ ToggleGameMode

SpecStore == Init /\ [][NextStore]_vars

----------------------------------------------------------------------------
(* The advance with the order of the forEach loops made explicit.  A JS    *)
(* Set is visited in the order in which its members were inserted: the     *)
(* living set in the order `order`, cellsToCheck in the order in which     *)
(* the first loop adds its keys.  The engine is given as a record of the   *)
(* four fields the advance reads.                                          *)

RECURSIVE Orders(_)
\* the orders in which the members of S can have been inserted
Orders(S) ==
    IF S = {} THEN {<<>>}
    ELSE UNION {{<<k>> \o q : q \in Orders(S \ {k})} : k \in S}

\* the keys the dx / dy loops add for one living cell, in their order
CandidatesOf(key) ==
    LET cell == keyToCell(key)
    IN  [i \in 1..9 |-> cellToKey(cell.x + ((i - 1) \div 3) - 1,
                                  cell.y + ((i - 1) % 3) - 1)]

RECURSIVE AddAll(_, _, _)
\* Set.add of the keys q[i..] to the Set whose members, in order, are seen
AddAll(seen, q, i) ==
    IF i > Len(q) THEN seen
    ELSE AddAll(IF \E j \in 1..Len(seen) : seen[j] = q[i] THEN seen
                ELSE Append(seen, q[i]), q, i + 1)

RECURSIVE CheckOrder(_, _, _)
\* cellsToCheck, in order, after the forEach over the living cells order[i..]
CheckOrder(order, i, seen) ==
    IF i > Len(order) THEN seen
    ELSE CheckOrder(order, i + 1, AddAll(seen, CandidatesOf(order[i]), 1))

\* countNeighborsByColor on the engine e
NeighborsIn(e, x, y) ==
    LET alive == {d \in NeighborOffsets : cellToKey(x + d[1], y + d[2]) \in e.livingCells}
        color1 == Cardinality({d \in alive :
                     OrOne(MapGet(e.cellColors, cellToKey(x + d[1], y + d[2]))) = 1})
        color2 == Cardinality({d \in alive :
                     OrOne(MapGet(e.cellColors, cellToKey(x + d[1], y + d[2]))) # 1})
    IN  [total |-> color1 + color2, color1 |-> color1, color2 |-> color2]

\* one iteration of the forEach over cellsToCheck on the engine e: the
\* rule of nextGenerationBattle in battle mode, of nextGeneration otherwise
RuleIn(e, key, acc) ==
    LET cell == keyToCell(key)
        n == NeighborsIn(e, cell.x, cell.y)
        isCurrentlyAlive == key \in e.livingCells
        oldColor == OrOne(MapGet(e.cellColors, key))
        newColor == getMajorityColor(n.color1, n.color2)
    IN  IF isCurrentlyAlive
        THEN IF n.total = 2 \/ n.total = 3
             THEN [acc EXCEPT
                     !.newLivingCells = @ \cup {key},
                     !.newCellColors = IF e.battleMode THEN MapSet(@, key, newColor) ELSE @,
                     !.captured = IF e.battleMode /\ oldColor # newColor
                                  THEN Append(@, [x |-> cell.x, y |-> cell.y,
                                                  fromColor |-> oldColor,
                                                  toColor |-> newColor])
                                  ELSE @]
             ELSE [acc EXCEPT !.deaths = @ + 1]
        ELSE IF n.total = 3
             THEN [acc EXCEPT
                     !.newLivingCells = @ \cup {key},
                     !.newCellColors = IF e.battleMode THEN MapSet(@, key, newColor) ELSE @,
                     !.births = @ + 1]
             ELSE acc

RECURSIVE LoopInOrder(_, _, _, _)
LoopInOrder(e, todo, i, acc) ==
    IF i > Len(todo) THEN acc
    ELSE LoopInOrder(e, todo, i + 1, RuleIn(e, todo[i], acc))

\* the fields of the engine e after nextGeneration(), and the captured
\* list it returns in battle mode, when the living cells were inserted in
\* the order `order`
nextGenerationOf(e, order) ==
    LET r == LoopInOrder(e, CheckOrder(order, 1, <<>>), 1,
                         [newLivingCells |-> {}, newCellColors |-> EmptyMap,
                          captured |-> <<>>, births |-> 0, deaths |-> 0])
    IN  [livingCells |-> r.newLivingCells,
         cellColors |-> IF e.battleMode THEN r.newCellColors ELSE e.cellColors,
         generation |-> e.generation + 1,
         births |-> r.births,
         deaths |-> r.deaths,
         captured |-> r.captured]

----------------------------------------------------------------------------
(* Patterns placed on the grid.  A pattern is parsed from its picture, a   *)
(* click places it with its corner at any grid position (setCells in       *)
(* classic mode, setColoredCells with the paint colour in battle mode),    *)
(* and the engine is advanced.                                             *)

RECURSIVE ParseLine(_, _, _)
\* the inner loop of parsePattern: the cells of the line y from column x on
ParseLine(line, y, x) ==
    IF x >= Len(line) THEN <<>>
    ELSE (IF line[x + 1] \in {"O", "*", "#"} THEN <<[x |-> x, y |-> y]>> ELSE <<>>)
         \o ParseLine(line, y, x + 1)

RECURSIVE ParseLines(_, _)
ParseLines(lines, y) ==
    IF y >= Len(lines) THEN <<>>
    ELSE ParseLine(lines[y + 1], y, 0) \o ParseLines(lines, y + 1)

\* parsePattern on the lines of the picture, each a sequence of characters
parsePattern(lines) == ParseLines(lines, 0)

blinkerDef == parsePattern(<< <<"O", "O", "O">> >>)

blockDef == parsePattern(<< <<"O", "O">>, <<"O", "O">> >>)

\* the L-tromino, painted cell by cell
TrominoCells == <<[x |-> 0, y |-> 0], [x |-> 1, y |-> 0], [x |-> 0, y |-> 1]>>

\* `cells.map(cell => ({x: gridPos.x + cell.x, y: gridPos.y + cell.y}))`
PlaceCells(cells, gx, gy) ==
    [i \in 1..Len(cells) |-> [x |-> gx + cells[i].x, y |-> gy + cells[i].y]]

\* the same with `color: currentPaintColor`
PlaceColoredCells(cells, gx, gy, color) ==
    [i \in 1..Len(cells) |->
        [x |-> gx + cells[i].x, y |-> gy + cells[i].y, color |-> color]]

GridPositions == ((0 - MaxOffset)..MaxOffset) \X ((0 - MaxOffset)..MaxOffset)

InitPatterns ==
    /\ store = StoreInit
    /\ snapshot = NoSnapshot
    /\ view = ViewInit
    /\ battleMode \in BOOLEAN
    /\ \E cells \in {blinkerDef, blockDef, TrominoCells}, pos \in GridPositions,
          color \in ColonyColors :
          /\ livingCells = AddCells(PlaceCells(cells, pos[1], pos[2]), 1, {})
          /\ cellColors =
                IF battleMode
                THEN AddColors(PlaceColoredCells(cells, pos[1], pos[2], color), 1, EmptyMap)
                ELSE EmptyMap
    /\ generation = 0
    /\ lastBirths = 0
    /\ lastDeaths = 0
    /\ lastCaptured = <<>>
    /\ returned = Void

NextPatterns ==
    \/ UNCHANGED callers /\ generation < MaxSteps /\ NextGeneration

SpecPatterns == InitPatterns /\ [][NextPatterns]_vars

----------------------------------------------------------------------------
(* A caller that keeps the GameState exportState() returned, changes its   *)
(* Set and Map, and hands it back to importState().  The engine's methods  *)
(* add to, delete from and clear the Set and the Map its fields hold;      *)
(* nextGeneration() and importState() assign new ones to the fields.       *)

SnapCells == {<<x, 0>> : x \in -1..MaxSnapX}

SnapKeys == {cellToKey(c[1], c[2]) : c \in SnapCells}

\* the snapshot after a method that changed the engine's Set and Map in
\* place: an object the snapshot shares with the engine changed with it
SnapshotFollows ==
    snapshot' = [snapshot EXCEPT
                    !.state.livingCells = IF snapshot.sameSet THEN livingCells' ELSE @,
                    !.state.cellColors = IF snapshot.sameMap THEN cellColors' ELSE @]

\* the snapshot after nextGeneration(): `this.livingCells = newLivingCells`
\* and, in battle mode, `this.cellColors = newCellColors` leave the old
\* objects to whoever else holds them
SnapshotLeft ==
    snapshot' = [snapshot EXCEPT
                    !.sameSet = FALSE,
                    !.sameMap = IF battleMode THEN FALSE ELSE @]

\* exportState() returning the engine's own Set and Map
ExportSnapshotShared ==
    /\ ExportState
    /\ snapshot' = [held |-> TRUE, state |-> exportState,
                    sameSet |-> TRUE, sameMap |-> TRUE]

\* `s = engine.exportState()`: new Set(...) and new Map(...) are objects
\* of their own
ExportSnapshot ==
    /\ ExportState
    /\ snapshot' = [held |-> TRUE, state |-> exportState,
                    sameSet |-> FALSE, sameMap |-> FALSE]

\* `engine.importState(s)`: the fields get new Set(...) and new Map(...)
ImportSnapshot ==
    /\ snapshot.held
    /\ ImportState(snapshot.state)
    /\ snapshot' = [snapshot EXCEPT !.sameSet = FALSE, !.sameMap = FALSE]

\* `s.livingCells.add(key)`
SnapshotAdd(key) ==
    /\ snapshot.held
    /\ snapshot' = [snapshot EXCEPT !.state.livingCells = @ \cup {key}]
    /\ livingCells' = IF snapshot.sameSet THEN livingCells \cup {key} ELSE livingCells
    /\ UNCHANGED <<cellColors, generation, lastBirths, lastDeaths, lastCaptured,
                   battleMode, returned>>

\* `s.livingCells.delete(key)`
SnapshotDelete(key) ==
    /\ snapshot.held
    /\ snapshot' = [snapshot EXCEPT !.state.livingCells = @ \ {key}]
    /\ livingCells' = IF snapshot.sameSet THEN livingCells \ {key} ELSE livingCells
    /\ UNCHANGED <<cellColors, generation, lastBirths, lastDeaths, lastCaptured,
                   battleMode, returned>>

\* `s.cellColors.set(key, color)`
SnapshotSetColor(key, color) ==
    /\ snapshot.held
    /\ snapshot' = [snapshot EXCEPT !.state.cellColors = MapSet(@, key, color)]
    /\ cellColors' = IF snapshot.sameMap THEN MapSet(cellColors, key, color)
                     ELSE cellColors
    /\ UNCHANGED <<livingCells, generation, lastBirths, lastDeaths, lastCaptured,
                   battleMode, returned>>

NextSnap ==
    \/ UNCHANGED <<store, view>> /\ (\E enabled \in BOOLEAN : SetBattleMode(enabled))
                               /\ SnapshotFollows
    \/ UNCHANGED <<store, view>> /\ (\E c \in SnapCells, color \in ColorArgs : SetCell(c[1], c[2], color))
                               /\ SnapshotFollows
    \/ UNCHANGED <<store, view>> /\ (\E c \in SnapCells : KillCell(c[1], c[2]))
                               /\ SnapshotFollows
    \/ UNCHANGED <<store, view>> /\ Clear /\ SnapshotFollows
    \/ UNCHANGED <<store, view>> /\ generation < MaxGen /\ NextGeneration /\ SnapshotLeft
    \/ UNCHANGED <<store, view>> /\ ExportSnapshot
    \/ UNCHANGED <<store, view>> /\ ImportSnapshot
    \/ UNCHANGED <<store, view>> /\ \E key \in SnapKeys : SnapshotAdd(key)
    \/ UNCHANGED <<store, view>> /\ \E key \in SnapKeys : SnapshotDelete(key)
    \/ UNCHANGED <<store, view>> /\ \E key \in SnapKeys, color \in ColonyColors :
                                     SnapshotSetColor(key, color)

SpecSnap == Init /\ [][NextSnap]_vars

----------------------------------------------------------------------------
(* The render loop and the controls that start, stop and step the          *)
(* simulation.  requestAnimationFrame calls loop(timestamp) once per       *)
(* frame; timestamps are whole milliseconds here, and                      *)
(* `timestamp - lastStepTime >= 1000 / currentSpeed` is compared after     *)
(* multiplying both sides by the speed, which is positive.                 *)

FrameDeltas == {FrameMs, LongFrameMs}

Speeds == {SpeedMin, InitialSpeed, SpeedMax}

\* loop() without the test of `running`
TickIgnoresRunning(delta) ==
    LET timestamp == view.timestamp + delta
    IN  /\ timestamp <= MaxTime
        /\ IF /\ view.currentSpeed > 0
              /\ (timestamp - view.lastStepTime) * view.currentSpeed >= MsPerSecond
           THEN /\ generation < MaxSteps
                /\ Step
                /\ view' = [view EXCEPT !.timestamp = timestamp,
                                        !.lastStepTime = timestamp,
                                        !.renderedAt = timestamp]
           ELSE /\ UNCHANGED <<engine, returned, store>>
                /\ view' = [view EXCEPT !.timestamp = timestamp,
                                        !.renderedAt = timestamp]
        /\ UNCHANGED snapshot

\* one call of loop(timestamp), delta ms after the call before
Tick(delta) ==
    LET timestamp == view.timestamp + delta
    IN  /\ timestamp <= MaxTime
        /\ IF /\ store.isRunning
              /\ view.currentSpeed > 0
              /\ (timestamp - view.lastStepTime) * view.currentSpeed >= MsPerSecond
           THEN /\ generation < MaxSteps
                /\ Step
                /\ view' = [view EXCEPT !.timestamp = timestamp,
                                        !.lastStepTime = timestamp,
                                        !.renderedAt = timestamp]
           ELSE /\ UNCHANGED <<engine, returned, store>>
                /\ view' = [view EXCEPT !.timestamp = timestamp,
                                        !.renderedAt = timestamp]
        /\ UNCHANGED snapshot

\* the key s, S or ArrowRight (and the Step button, disabled while
\* running): step() unless the simulation is running
KeyStep ==
    /\ IF store.isRunning
       THEN UNCHANGED <<engine, returned, store>>
       ELSE generation < MaxSteps /\ Step
    /\ UNCHANGED <<snapshot, view>>

\* the space key and the Play / Pause button
TogglePlayPause ==
    /\ IF store.isRunning THEN Pause ELSE Play
    /\ UNCHANGED <<snapshot, view>>

\* the speed slider: `speed.set(parseInt(target.value))`
HandleSpeedChange(value) ==
    /\ view' = [view EXCEPT !.currentSpeed = value]
    /\ UNCHANGED <<engine, returned, store, snapshot>>

\* the key r or R
KeyReset ==
    /\ Reset
    /\ UNCHANGED <<snapshot, view>>

NextLoop ==
    \/ \E delta \in FrameDeltas : Tick(delta)
    \/ KeyStep
    \/ TogglePlayPause
    \/ \E value \in Speeds : HandleSpeedChange(value)
    \/ KeyReset

SpecLoop == Init /\ [][NextLoop]_vars

----------------------------------------------------------------------------
(* The colour map under the calls that write it and the advance: a row of  *)
(* cells and the cell above its middle are painted with and without a      *)
(* colour, in either mode, and the grid is advanced.  A classic advance    *)
(* leaves the colour map as it is, so the grids a battle advance starts    *)
(* from include living cells without a colour and colours of cells that    *)
(* have died.  Calls are made as long as an advance can follow them.       *)

ColorCells == {<<x, 0>> : x \in -1..MaxX} \cup {<<0, 1>>}

ColorCellLists == SeqsUpTo({[x |-> c[1], y |-> c[2]] : c \in ColorCells}, MaxList)

ColorColoredCellLists ==
    SeqsUpTo({[x |-> c[1], y |-> c[2], color |-> col] :
                 c \in ColorCells, col \in ColonyColors}, MaxList)

NextColors ==
    \/ UNCHANGED callers /\ generation < MaxSteps
                       /\ \E enabled \in BOOLEAN : SetBattleMode(enabled)
    \/ UNCHANGED callers /\ generation < MaxSteps
                       /\ \E cells \in ColorCellLists : SetCells(cells)
    \/ UNCHANGED callers /\ generation < MaxSteps
                       /\ \E cells \in ColorColoredCellLists : SetColoredCells(cells)
    \/ UNCHANGED callers /\ generation < MaxSteps /\ NextGeneration

SpecColors == Init /\ [][NextColors]_vars

----------------------------------------------------------------------------
(* The capture counters of the game store: the functions of the store     *)
(* that paint, step and reset, called after setGameMode('battle'), with    *)
(* room in the counters for the captures of more than one call of          *)
(* updateStats.                                                            *)

\* `updateStats(engine.getStats())` on the engine as the step leaves it,
\* with the history cut to maxLength entries; the capture counters stay
\* within maxCaptures
UpdateStatsWithin(maxCaptures, maxLength) ==
    \E st \in {updateStatsUpTo(store, getStats', checkBattleResult', maxLength)} :
        /\ st.capturedBy1 + st.capturedBy2 <= maxCaptures
        /\ store' = st

\* the state setGameMode('battle') leaves when it is the first call
InitCaptures ==
    /\ store = [StoreInit EXCEPT !.gameMode = "battle"]
    /\ snapshot = NoSnapshot
    /\ view = ViewInit
    /\ livingCells = {}
    /\ cellColors = EmptyMap
    /\ generation = 0
    /\ lastBirths = 0
    /\ lastDeaths = 0
    /\ lastCaptured = <<>>
    /\ battleMode = TRUE
    /\ returned = Void

NextCaptures ==
    \/ UNCHANGED <<snapshot, view>>
          /\ \E c \in PaintCells : ToggleCell(c[1], c[2], store.paintColor)
          /\ UpdateStatsWithin(MaxCounted, MAX_HISTORY_LENGTH)
    \/ UNCHANGED <<snapshot, view>>
          /\ \E c \in PaintCells : SetCell(c[1], c[2], store.paintColor)
          /\ UpdateStatsWithin(MaxCounted, MAX_HISTORY_LENGTH)
    \/ UNCHANGED <<snapshot, view>>
          /\ \E cells \in CellLists : SetCells(cells)
          /\ UpdateStatsWithin(MaxCounted, MAX_HISTORY_LENGTH)
    \/ UNCHANGED <<snapshot, view>>
          /\ \E cells \in ColoredCellLists : SetColoredCells(cells)
          /\ UpdateStatsWithin(MaxCounted, MAX_HISTORY_LENGTH)
    \/ UNCHANGED <<snapshot, view>>
          /\ generation < MaxGen
          /\ NextGeneration
          /\ UpdateStatsWithin(MaxCounted, MAX_HISTORY_LENGTH)
    \/ UNCHANGED <<snapshot, view>> /\ Reset
    \/ UNCHANGED <<snapshot, view>> /\ \E color \in ColonyColors : SetPaintColor(color)

SpecCaptures == InitCaptures /\ [][NextCaptures]_vars

----------------------------------------------------------------------------
(* The game as the view drives it: the mode selector, clicks and drags on  *)
(* the canvas, pattern placement, the colour buttons, step and reset.      *)

\* the patterns placed and the grid positions of the clicks that place them
ViewPatterns == {blinkerDef}

ViewPositions == {<<0 - 1, 0>>}

\* handleModeChange without the reset()
HandleModeChangeNoReset(mode) ==
    /\ SetGameMode(mode)
    /\ UNCHANGED <<snapshot, view>>

\* handleModeChange: setGameMode(mode), whose subscriber calls
\* setBattleMode when the mode changes, and then reset()
HandleModeChange(mode) ==
    /\ livingCells' = {}
    /\ cellColors' = EmptyMap
    /\ generation' = 0
    /\ lastBirths' = 0
    /\ lastDeaths' = 0
    /\ lastCaptured' = <<>>
    /\ battleMode' = IF mode # store.gameMode THEN mode = "battle" ELSE battleMode
    /\ returned' = Void
    /\ store' = [store EXCEPT
                   !.gameMode = mode, !.battleWinner = "null",
                   !.isRunning = FALSE, !.generation = 0, !.population = 0,
                   !.births = 0, !.deaths = 0, !.population1 = 0,
                   !.population2 = 0, !.capturedBy1 = 0, !.capturedBy2 = 0,
                   !.populationHistory = <<>>]
    /\ UNCHANGED <<snapshot, view>>

\* a left click, or a drag onto a new cell, without a selected pattern:
\* toggleCell on a living cell, setCell on a dead one
PaintAt(x, y) ==
    /\ IF isAlive(x, y) THEN StoreToggleCell(x, y) ELSE StoreSetCell(x, y)
    /\ UNCHANGED <<snapshot, view>>

\* a left click with a selected pattern
PlacePattern(cells, gx, gy) ==
    /\ IF store.gameMode = "battle"
       THEN StoreSetColoredCells(PlaceColoredCells(cells, gx, gy, store.paintColor))
       ELSE StoreSetCells(PlaceCells(cells, gx, gy))
    /\ UNCHANGED <<snapshot, view>>

\* the colour buttons
SelectColor(color) ==
    /\ SetPaintColor(color)
    /\ UNCHANGED <<snapshot, view>>

NextView ==
    \/ \E mode \in GameModes : HandleModeChange(mode)
    \/ \E c \in PaintCells : PaintAt(c[1], c[2])
    \/ \E cells \in ViewPatterns, pos \in ViewPositions :
          PlacePattern(cells, pos[1], pos[2])
    \/ \E color \in ColonyColors : SelectColor(color)
    \/ generation < MaxGen /\ KeyStep
    \/ KeyReset

SpecView == Init /\ [][NextView]_vars

----------------------------------------------------------------------------
(* The population history of the game store: painting, stepping and        *)
(* resetting in classic mode, with a history long enough to show the       *)
(* order of its entries.                                                   *)

NextHistory ==
    \/ UNCHANGED <<snapshot, view>>
          /\ \E c \in PaintCells : ToggleCell(c[1], c[2], store.paintColor)
          /\ UpdateStatsWithin(MaxCaptures, MaxHistory)
    \/ UNCHANGED <<snapshot, view>>
          /\ \E c \in PaintCells : SetCell(c[1], c[2], store.paintColor)
          /\ UpdateStatsWithin(MaxCaptures, MaxHistory)
    \/ UNCHANGED <<snapshot, view>>
          /\ generation < MaxSteps
          /\ NextGeneration
          /\ UpdateStatsWithin(MaxCaptures, MaxHistory)
    \/ UNCHANGED <<snapshot, view>> /\ Reset

SpecHistory == Init /\ [][NextHistory]_vars

----------------------------------------------------------------------------
(* Vocabulary of the properties: the grid read as a set of coordinates,    *)
(* independently of the engine's own counting.                             *)

\* a window of the lattice that holds every cell the specifications can
\* make alive, with a margin of one cell around them
Grow == IF MaxSteps > MaxGen THEN MaxSteps ELSE MaxGen
Wide == IF MaxX > MaxPaintX THEN MaxX ELSE MaxPaintX
WindowX == (0 - 2 - Grow)..(Wide + 1 + Grow)
WindowY == (0 - 2 - Grow)..(2 + Grow)
Window == WindowX \X WindowY

\* the step is a call of nextGeneration(): the only call that returns
\* statistics and moves the generation counter
AdvanceStep == returned'.kind = "stats" /\ generation' # generation

KeyOf(c) == cellToKey(c[1], c[2])

\* the coordinates of the cells of the grid `living`
Coords(living) == {c \in Window : KeyOf(c) \in living}

\* the coordinates of the cells of `living` that belong to colony `col`: a
\* cell belongs to the colony of its entry in the colour map, and to
\* colony 1 when it has none (section 9 of the specification)
ColonyOf(colors, key) == IF key \in DOMAIN colors THEN colors[key] ELSE 1

ColonyCoords(living, colors, col) ==
    {c \in Coords(living) : ColonyOf(colors, KeyOf(c)) = col}

\* the eight cells around c
Moore(c) == {d \in ((c[1] - 1)..(c[1] + 1)) \X ((c[2] - 1)..(c[2] + 1)) : d # c}

\* the number of cells of the set `cells` around c
Around(c, cells) == Cardinality(Moore(c) \cap cells)

\* `cells` are the coordinates of all of `living`, none on the border of
\* the window
InWindow(living, cells) ==
    /\ Cardinality(cells) = Cardinality(living)
    /\ \A c \in cells : Moore(c) \subseteq Window

----------------------------------------------------------------------------
(* C1: in classic mode, after one nextGeneration() a cell is alive iff it  *)
(* was alive with 2 or 3 living Moore neighbours, or was dead with exactly *)
(* 3 living Moore neighbours.                                              *)

C1_ClassicRule ==
    [][(~battleMode /\ AdvanceStep) =>
          \A before \in {Coords(livingCells)}, after \in {Coords(livingCells')} :
             /\ InWindow(livingCells, before)
             /\ InWindow(livingCells', after)
             /\ \A c \in Window :
                   c \in after <=>
                      \/ c \in before /\ Around(c, before) \in {2, 3}
                      \/ c \notin before /\ Around(c, before) = 3]_vars

\* a classic advance with births, deaths and survivors has been made
C1_Witness ==
    /\ ~battleMode
    /\ returned.kind = "stats"
    /\ generation > 0
    /\ lastBirths > 0
    /\ lastDeaths > 0
    /\ Cardinality(livingCells) > lastBirths

----------------
(* C2: after every nextGeneration(), in either mode, the reported births   *)
(* is the number of cells dead before and alive after, the reported deaths *)
(* the number of cells alive before and dead after, and the population is  *)
(* the old population plus births minus deaths; the counts are those of    *)
(* this advance alone, whatever the counts of the advance before.          *)

C2_BirthsDeaths ==
    [][AdvanceStep =>
          LET born == livingCells' \ livingCells
              died == livingCells \ livingCells'
              stats == returned'.val
          IN  /\ returned'.kind = "stats"
              /\ stats.births = Cardinality(born)
              /\ stats.deaths = Cardinality(died)
              /\ stats.population = Cardinality(livingCells')
              /\ stats.population =
                    Cardinality(livingCells) + stats.births - stats.deaths
              /\ lastBirths' = stats.births
              /\ lastDeaths' = stats.deaths]_vars

\* a second advance with births and deaths has been made
C2_Witness ==
    /\ returned.kind = "stats"
    /\ generation >= 2
    /\ returned.val.births > 0
    /\ returned.val.deaths > 0

----------------------------------------------------------------------------
(* C3: over any sequence of public operations the generation counter       *)
(* starts at 0, is never negative, increases by exactly 1 on each          *)
(* nextGeneration(), never decreases otherwise, and becomes 0 again only   *)
(* through clear().                                                        *)

\* the step is a call of importState()
ImportStep == \E state \in ImportStates : ImportState(state)

\* the claim as stated
C3_Original ==
    /\ generation = 0
    /\ [][/\ generation' >= 0
          /\ AdvanceStep => generation' = generation + 1
          /\ generation' < generation => Clear
          /\ (generation # 0 /\ generation' = 0) => Clear]_vars

\* C3 as amended: the counter starts at 0, is never negative, increases
\* by exactly 1 on each nextGeneration(), becomes 0 on clear(), becomes the
\* generation of the imported state on importState() (which can lower it
\* or make it 0), and is changed by no other operation.
C3_Generation ==
    /\ generation = 0
    /\ [][/\ generation' >= 0
          /\ AdvanceStep => generation' = generation + 1
          /\ Clear => generation' = 0
          /\ \A state \in ImportStates :
                ImportState(state) => generation' = state.generation
          /\ generation' # generation => AdvanceStep \/ Clear \/ ImportStep]_vars

\* importState() has made the counter 0 after nextGeneration() had raised
\* it: the captured list of a battle advance, which clear() empties and
\* importState() keeps, is still there
C3_Witness ==
    /\ generation = 0
    /\ lastCaptured # <<>>
    /\ returned = Void

----------------------------------------------------------------------------
(* C4: in battle mode a living cell with 2 or 3 living neighbours survives *)
(* nextGeneration() with colour 1 if its colony-1 neighbours are at least  *)
(* as many as its colony-2 neighbours and colour 2 otherwise (a tie goes   *)
(* to colony 1); a living cell with any other number of neighbours dies.   *)

C4_BattleSurvival ==
    [][(battleMode /\ AdvanceStep) =>
          \A before \in {Coords(livingCells)},
             colony1 \in {ColonyCoords(livingCells, cellColors, 1)},
             colony2 \in {ColonyCoords(livingCells, cellColors, 2)} :
             /\ InWindow(livingCells, before)
             /\ \A c \in before :
                   IF Around(c, before) \in {2, 3}
                   THEN /\ KeyOf(c) \in livingCells'
                        /\ KeyOf(c) \in DOMAIN cellColors'
                        /\ cellColors'[KeyOf(c)] =
                              IF Around(c, colony1) >= Around(c, colony2)
                              THEN 1 ELSE 2
                   ELSE /\ KeyOf(c) \notin livingCells'
                        /\ KeyOf(c) \notin DOMAIN cellColors']_vars

\* a battle advance in which a colony-2 cell survived as colour 1 while
\* another cell died
C4_Witness ==
    /\ battleMode
    /\ returned.kind = "stats"
    /\ generation > 0
    /\ lastDeaths > 0
    /\ \E i \in 1..Len(lastCaptured) :
          lastCaptured[i].fromColor = 2 /\ lastCaptured[i].toColor = 1

----------------------------------------------------------------------------
(* C5: in battle mode the captured list returned by nextGeneration() holds *)
(* exactly one record {x, y, fromColor, toColor} for each cell that        *)
(* survived with a colour other than its old one, with fromColor the old   *)
(* and toColor the new colour, and no other record (none for a born or a   *)
(* dead cell); it is empty when no survivor changed owner.                 *)

\* the survivors of the step whose colour changed
Changed(living, colors, living2, colors2) ==
    {k \in living \cap living2 : ColonyOf(colors, k) # colors2[k]}

C5_Captured ==
    [][(battleMode /\ AdvanceStep) =>
          LET captured == returned'.val.captured
              changed == Changed(livingCells, cellColors, livingCells', cellColors')
          IN  /\ captured = lastCaptured'
              /\ Len(captured) = Cardinality(changed)
              /\ \A i \in 1..Len(captured) :
                    LET k == cellToKey(captured[i].x, captured[i].y)
                    IN  /\ k \in changed
                        /\ captured[i].fromColor = ColonyOf(cellColors, k)
                        /\ captured[i].toColor = cellColors'[k]
                        /\ captured[i].fromColor # captured[i].toColor
              /\ \A k \in changed :
                    Cardinality({i \in 1..Len(captured) :
                                    cellToKey(captured[i].x, captured[i].y) = k}) = 1]_vars

\* a battle advance with a captured cell, an unchanged survivor, a birth
\* and a death
C5_Witness ==
    /\ battleMode
    /\ returned.kind = "stats"
    /\ Len(returned.val.captured) >= 1
    /\ lastBirths > 0
    /\ lastDeaths > 0
    /\ Cardinality(livingCells) > lastBirths + Len(lastCaptured)

----------------------------------------------------------------------------
(* C6: in battle mode a dead cell with exactly 3 living neighbours is born *)
(* by nextGeneration() with colour 1 if at least 2 of them are colony 1    *)
(* and colour 2 otherwise; a dead cell with any other number stays dead.   *)

C6_BattleBirth ==
    [][(battleMode /\ AdvanceStep) =>
          \A before \in {Coords(livingCells)}, after \in {Coords(livingCells')},
             colony1 \in {ColonyCoords(livingCells, cellColors, 1)} :
             /\ InWindow(livingCells, before)
             /\ InWindow(livingCells', after)
             /\ \A c \in Window \ before :
                   IF Around(c, before) = 3
                   THEN /\ c \in after
                        /\ KeyOf(c) \in DOMAIN cellColors'
                        /\ cellColors'[KeyOf(c)] =
                              IF Around(c, colony1) >= 2 THEN 1 ELSE 2
                   ELSE /\ c \notin after
                        /\ KeyOf(c) \notin DOMAIN cellColors']_vars

\* a battle advance in which cells of both colours were born
C6_Witness ==
    /\ battleMode
    /\ returned.kind = "stats"
    /\ generation = 1
    /\ lastBirths >= 2
    /\ \E k1, k2 \in livingCells \ StepKeys :
          cellColors[k1] = 1 /\ cellColors[k2] = 2

----------------------------------------------------------------------------
(* C7: in every reachable state in which battle mode is enabled, every     *)
(* living cell has exactly one assigned colour (1 or 2) in the colour map. *)

\* the claim as stated
C7_Original ==
    battleMode =>
        \A key \in livingCells :
            key \in DOMAIN cellColors /\ cellColors[key] \in ColonyColors

\* C7 as amended: every entry of the colour map is 1 or 2, and right after
\* a nextGeneration() made in battle mode every living cell has one.
C7_ColouredAfterAdvance ==
    [][/\ \A key \in DOMAIN cellColors' : cellColors'[key] \in ColonyColors
       /\ (battleMode /\ AdvanceStep) =>
             \A key \in livingCells' : key \in DOMAIN cellColors']_vars

\* a battle advance from a grid with a colourless cell, in which a cell
\* was born and cells survived
C7_Witness ==
    /\ battleMode
    /\ returned.kind = "stats"
    /\ generation > 0
    /\ lastBirths > 0
    /\ Cardinality(livingCells) > lastBirths
    /\ \A key \in livingCells : key \in DOMAIN cellColors

----------------------------------------------------------------------------
(* C8: while the engine is in classic mode the colour map is empty.        *)

C8_ClassicNoColors == ~battleMode => DOMAIN cellColors = {}

----------------------------------------------------------------------------
(* C9: a cell that is not in the living set has no colour: the keys of the *)
(* colour map are living cells and getCellColor(x, y) is undefined for     *)
(* every dead cell.                                                        *)

C9_DeadHasNoColor ==
    /\ DOMAIN cellColors \subseteq livingCells
    /\ \A c \in Window : ~isAlive(c[1], c[2]) => getCellColor(c[1], c[2]) = 0

----------------------------------------------------------------------------
(* C10: checkBattleResult() in battle mode returns draw when both colour   *)
(* populations are zero, the surviving colony when exactly one is zero and *)
(* no winner when neither is; right after a nextGeneration() in battle     *)
(* mode that leaves one colour without living cells it reports the other   *)
(* colour, and draw if no cell is left; outside battle mode it returns no  *)
(* winner; it changes no state.                                            *)

\* the verdict for colour populations p1 and p2
Verdict(p1, p2) ==
    IF p1 = 0 /\ p2 = 0 THEN "draw"
    ELSE IF p1 = 0 THEN "2"
    ELSE IF p2 = 0 THEN "1"
    ELSE "null"

\* the number of entries of the colour map with colour col
Entries(colors, col) == Cardinality({k \in DOMAIN colors : colors[k] = col})

\* the number of living cells whose colour is col
LivingOf(living, colors, col) ==
    Cardinality({k \in living : k \in DOMAIN colors /\ colors[k] = col})

C10_BattleResult ==
    [][/\ returned'.kind = "result" =>
             /\ UNCHANGED engine
             /\ returned'.val =
                   IF battleMode
                   THEN Verdict(Entries(cellColors, 1), Entries(cellColors, 2))
                   ELSE "null"
       /\ (battleMode /\ AdvanceStep) =>
             /\ checkBattleResult' =
                   Verdict(LivingOf(livingCells', cellColors', 1),
                           LivingOf(livingCells', cellColors', 2))
             /\ livingCells' = {} <=> checkBattleResult' = "draw"]_vars

\* checkBattleResult() has reported colony 2 as the winner of a battle
\* advance that left living cells
C10_Witness ==
    /\ battleMode
    /\ returned = [kind |-> "result", val |-> "2"]
    /\ generation > 0
    /\ lastBirths > 0
    /\ livingCells # {}

----------------------------------------------------------------------------
(* C11: the battleWinner store gets a value other than null only in battle *)
(* mode and only when the generation of the engine is above 0, so painting *)
(* at generation 0 declares no winner; the value is the verdict of         *)
(* checkBattleResult(), and when updateStats sets it isRunning is false    *)
(* on return, so that the render loop, which steps only while isRunning    *)
(* is true, makes no further step.                                         *)

\* the battle of the engine is decided and updateStats would declare it
Decided ==
    /\ store.gameMode = "battle"
    /\ generation > 0
    /\ checkBattleResult # "null"

C11_BattleWinner ==
    [][/\ (store'.battleWinner # "null" /\ store'.battleWinner # store.battleWinner) =>
             /\ store.gameMode = "battle"
             /\ store'.gameMode = "battle"
             /\ battleMode'
             /\ generation' > 0
             /\ store'.generation > 0
             /\ store'.battleWinner = checkBattleResult'
             /\ ~store'.isRunning
       /\ (generation' = 0 /\ store.battleWinner = "null") =>
             store'.battleWinner = "null"
       \* a step that ends in a decided battle with isRunning true has not
       \* called updateStats: it is play(), toggleRunning(), setPaintColor()
       \* or a change of mode
       /\ (store'.isRunning /\ Decided') =>
             \/ Play
             \/ ToggleRunning
             \/ \E color \in ColonyColors : SetPaintColor(color)
             \/ \E mode \in GameModes : SetGameMode(mode)
             \/ ToggleGameMode]_vars

\* a step made while the loop was running has left living cells of
\* colony 2 only: colony 2 is declared the winner and the loop is stopped
C11_Witness ==
    /\ store.battleWinner = "2"
    /\ ~store.isRunning
    /\ returned.kind = "stats"
    /\ generation > 0
    /\ store.generation = generation
    /\ livingCells # {}
    /\ lastBirths > 0

----------------------------------------------------------------------------
(* C12: the engine has no terminal lock: in every state in which           *)
(* checkBattleResult() reports a winner or a draw nextGeneration() can     *)
(* still be called, and the call applies the battle rules to the current   *)
(* cells and increases the generation by 1.                                *)

\* nextGeneration() applied the battle rules to the grid of this state
BattleRulesApplied ==
    \A before \in {Coords(livingCells)}, after \in {Coords(livingCells')},
       colony1 \in {ColonyCoords(livingCells, cellColors, 1)},
       colony2 \in {ColonyCoords(livingCells, cellColors, 2)} :
       /\ InWindow(livingCells, before)
       /\ InWindow(livingCells', after)
       /\ \A c \in Window :
             c \in after <=>
                \/ c \in before /\ Around(c, before) \in {2, 3}
                \/ c \notin before /\ Around(c, before) = 3
       /\ \A c \in after :
             MapGet(cellColors', KeyOf(c)) =
                IF Around(c, colony1) >= Around(c, colony2) THEN 1 ELSE 2

\* nextGeneration() has no guard in the engine, and none in the model: a
\* call made in a decided battle returns statistics like any other
C12_NoTerminalLock ==
    [][(checkBattleResult # "null" /\ returned'.kind = "stats") =>
          /\ generation' = generation + 1
          /\ battleMode'
          /\ returned'.val.generation = generation + 1
          /\ BattleRulesApplied]_vars

\* the second advance of a battle that colony 2 had won after the first:
\* nothing was born, died or captured, and every cell is of colony 2, so
\* the grid before the advance was this one
C12_Witness ==
    /\ battleMode
    /\ returned.kind = "stats"
    /\ generation = 2
    /\ livingCells # {}
    /\ lastBirths = 0
    /\ lastDeaths = 0
    /\ lastCaptured = <<>>
    /\ \A key \in livingCells : MapGet(cellColors, key) = 2

----------------------------------------------------------------------------
(* C13: setBattleMode(false) empties the colour map and leaves the living  *)
(* set, the generation and the last birth/death counts as they were;       *)
(* setBattleMode(true) restores no colour: it leaves the colour map as it  *)
(* is, so after a switch to classic and back every living cell is          *)
(* colourless.                                                             *)

C13_BattleModeSwitch ==
    [][/\ SetBattleMode(FALSE) =>
             /\ ~battleMode'
             /\ DOMAIN cellColors' = {}
             /\ \A c \in Window : getCellColor(c[1], c[2])' = 0
             /\ UNCHANGED <<livingCells, generation, lastBirths, lastDeaths>>
       /\ SetBattleMode(TRUE) =>
             /\ battleMode'
             /\ cellColors' = cellColors
             /\ UNCHANGED <<livingCells, generation, lastBirths, lastDeaths>>
             /\ DOMAIN cellColors = {} =>
                   \A c \in Window :
                      isAlive(c[1], c[2])' => getCellColor(c[1], c[2])' = 0]_vars

\* battle mode has been switched on over a grid that holds a cell born by
\* an advance and the captured list of a battle advance, and no cell has a
\* colour
C13_Witness ==
    /\ battleMode
    /\ returned = Void
    /\ generation > 0
    /\ lastCaptured # <<>>
    /\ Cardinality(livingCells) >= 3
    /\ DOMAIN cellColors = {}

----------------------------------------------------------------------------
(* C14: clear() leaves the living set empty, the colour map empty, the     *)
(* generation 0, the last births and deaths 0 and the last captured list   *)
(* empty, from any state; the battle flag keeps its value.                 *)

C14_Clear ==
    [][Clear =>
          /\ livingCells' = {}
          /\ DOMAIN cellColors' = {}
          /\ generation' = 0
          /\ lastBirths' = 0
          /\ lastDeaths' = 0
          /\ lastCaptured' = <<>>
          /\ getStats'.population = 0
          /\ battleMode' = battleMode]_vars

\* a cleared engine that is still in battle mode
C14_Witness ==
    /\ battleMode
    /\ returned = Void
    /\ livingCells = {}
    /\ DOMAIN cellColors = {}
    /\ generation = 0
    /\ lastBirths = 0
    /\ lastDeaths = 0
    /\ lastCaptured = <<>>

----------------------------------------------------------------------------
(* C15: toggleCell(x, y) returns isAlive(x, y) as it is after the call: on *)
(* a dead cell it returns true and the cell is alive, on a living cell     *)
(* (such as the cell a toggleCell has just made alive) it returns false    *)
(* and the cell is dead; the liveness of every other cell is unchanged.    *)

C15_Toggle ==
    [][\A c \in PaintCells, color \in ColorArgs :
          (livingCells' # livingCells /\ ToggleCell(c[1], c[2], color)) =>
             /\ returned'.kind = "boolean"
             /\ returned'.val = isAlive(c[1], c[2])'
             /\ ~isAlive(c[1], c[2]) => (returned'.val = TRUE /\ isAlive(c[1], c[2])')
             /\ isAlive(c[1], c[2]) => (returned'.val = FALSE /\ ~isAlive(c[1], c[2])')
             /\ livingCells' \ {KeyOf(c)} = livingCells \ {KeyOf(c)}]_vars

\* toggleCell has returned false for a cell of a grid with other living
\* cells
C15_Witness ==
    /\ returned = [kind |-> "boolean", val |-> FALSE]
    /\ Cardinality(livingCells) >= 2

----------------------------------------------------------------------------
(* C16: in battle mode toggleCell(x, y, color) with a colour 1 or 2 on a   *)
(* dead cell makes it alive with getCellColor(x, y) = color; toggleCell on *)
(* a living cell, in either mode, makes it dead and removes its colour     *)
(* entry; killCell(x, y) leaves the cell dead and without colour entry.    *)

C16_ToggleKillColors ==
    [][/\ \A c \in PaintCells, color \in ColonyColors :
             (battleMode /\ returned'.kind = "boolean" /\ ~isAlive(c[1], c[2])
                 /\ ToggleCell(c[1], c[2], color)) =>
                /\ isAlive(c[1], c[2])'
                /\ getCellColor(c[1], c[2])' = color
       /\ \A c \in PaintCells, color \in ColorArgs :
             (returned'.kind = "boolean" /\ isAlive(c[1], c[2])
                 /\ ToggleCell(c[1], c[2], color)) =>
                /\ ~isAlive(c[1], c[2])'
                /\ getCellColor(c[1], c[2])' = 0
                /\ KeyOf(c) \notin DOMAIN cellColors'
       /\ \A c \in PaintCells :
             (returned'.kind = "void" /\ KillCell(c[1], c[2])) =>
                /\ ~isAlive(c[1], c[2])'
                /\ getCellColor(c[1], c[2])' = 0
                /\ KeyOf(c) \notin DOMAIN cellColors']_vars

\* toggleCell has made a cell of colony 2 alive in battle mode next to a
\* cell of colony 1
C16_Witness ==
    /\ battleMode
    /\ returned = [kind |-> "boolean", val |-> TRUE]
    /\ \E k1, k2 \in livingCells :
          MapGet(cellColors, k1) = 1 /\ MapGet(cellColors, k2) = 2

----------------------------------------------------------------------------
(* C17: setCells(cs) and setColoredCells(cs) are idempotent: a second      *)
(* identical call changes nothing; the living set becomes the old one      *)
(* plus the coordinates of cs, each counted once however often it occurs   *)
(* in cs or whether it was alive; setColoredCells gives each coordinate of *)
(* cs the colour of its last entry in cs, also if the cell was alive.      *)

\* the keys of the coordinates of the list cs
ListKeys(cs) == {cellToKey(cs[i].x, cs[i].y) : i \in 1..Len(cs)}

\* the index of the last entry of cs for the key k
LastEntry(cs, k) ==
    CHOOSE i \in 1..Len(cs) :
        /\ cellToKey(cs[i].x, cs[i].y) = k
        /\ \A j \in (i + 1)..Len(cs) : cellToKey(cs[j].x, cs[j].y) # k

C17_SetCellsIdempotent ==
    [][/\ \A cs \in LongCellLists :
             SetCells(cs) =>
                /\ livingCells' = livingCells \cup ListKeys(cs)
                /\ getStats'.population = Cardinality(livingCells \cup ListKeys(cs))
                /\ AddCells(cs, 1, livingCells') = livingCells'
                /\ UNCHANGED <<cellColors, generation, lastBirths, lastDeaths,
                               lastCaptured, battleMode>>
       /\ \A cs \in LongColoredCellLists :
             SetColoredCells(cs) =>
                /\ livingCells' = livingCells \cup ListKeys(cs)
                /\ getStats'.population = Cardinality(livingCells \cup ListKeys(cs))
                /\ DOMAIN cellColors' = DOMAIN cellColors \cup ListKeys(cs)
                /\ \A k \in ListKeys(cs) : cellColors'[k] = cs[LastEntry(cs, k)].color
                /\ \A k \in DOMAIN cellColors \ ListKeys(cs) : cellColors'[k] = cellColors[k]
                /\ AddCells(cs, 1, livingCells') = livingCells'
                /\ AddColors(cs, 1, cellColors') = cellColors'
                /\ UNCHANGED <<generation, lastBirths, lastDeaths, lastCaptured,
                               battleMode>>]_vars

\* a list call has returned on a grid of two cells of different colonies
\* that an advance had left with a birth count
C17_Witness ==
    /\ returned = Void
    /\ generation > 0
    /\ lastBirths > 0
    /\ \E k1, k2 \in livingCells :
          MapGet(cellColors, k1) = 1 /\ MapGet(cellColors, k2) = 2

----------------------------------------------------------------------------
(* C18: the accessors isAlive, getCellColor, getLivingCells,               *)
(* getColoredCells, getBounds, getStats, getGeneration, getPopulation,     *)
(* checkBattleResult and exportState leave every field of the engine       *)
(* unchanged: living set, colour map, generation, last births and deaths,  *)
(* last captured list and battle flag.                                     *)

\* what `returned` says of the call when the call is one of the accessors
AccessorKinds ==
    {"isAlive", "getCellColor", "getLivingCells", "getColoredCells", "getBounds",
     "getStats", "getGeneration", "getPopulation", "result", "exportState"}

C18_AccessorsPure ==
    [][returned'.kind \in AccessorKinds =>
          /\ livingCells' = livingCells
          /\ cellColors' = cellColors
          /\ generation' = generation
          /\ lastBirths' = lastBirths
          /\ lastDeaths' = lastDeaths
          /\ lastCaptured' = lastCaptured
          /\ battleMode' = battleMode]_vars

\* getStats() has returned the statistics of a battle advance with a
\* capture, and the engine still holds them
C18_Witness ==
    /\ returned.kind = "getStats"
    /\ battleMode
    /\ generation > 0
    /\ returned.val.captured # <<>>
    /\ lastCaptured = returned.val.captured
    /\ returned.val.births = lastBirths
    /\ lastBirths > 0

----------------------------------------------------------------------------
(* C19: for a non-empty living set getBounds() returns the least and the   *)
(* greatest x and the least and the greatest y over the living cells,      *)
(* negative coordinates included; for an empty living set it returns null. *)

\* the least and the greatest member of a non-empty set of integers
Least(S) == CHOOSE m \in S : \A n \in S : m <= n
Greatest(S) == CHOOSE m \in S : \A n \in S : m >= n

C19_Bounds ==
    returned.kind = "getBounds" =>
        \A cells \in {Coords(livingCells)} :
            /\ InWindow(livingCells, cells)
            /\ IF cells = {}
               THEN returned.val = "null"
               ELSE /\ returned.val.minX = Least({c[1] : c \in cells})
                    /\ returned.val.maxX = Greatest({c[1] : c \in cells})
                    /\ returned.val.minY = Least({c[2] : c \in cells})
                    /\ returned.val.maxY = Greatest({c[2] : c \in cells})

\* getBounds() has returned the box of a single row left of the origin
C19_Witness ==
    /\ returned.kind = "getBounds"
    /\ livingCells # {}
    /\ returned.val.maxX < 0
    /\ returned.val.minY = returned.val.maxY

----------------------------------------------------------------------------
(* C20: an engine B that is constructed and then given A.exportState() by  *)
(* importState has A's living set, A's getColoredCells() result (as a      *)
(* set), A's generation and A's last birth and death counts.               *)

C20_ExportImport ==
    returned.kind = "exportState" =>
        \A B \in {importState(NewEngine, returned.val)} :
            /\ B.livingCells = livingCells
            /\ {keyToCell(key) : key \in B.livingCells} = getLivingCells
            /\ ColoredCellsOf(B.livingCells, B.cellColors) = getColoredCells
            /\ B.generation = generation
            /\ B.lastBirths = lastBirths
            /\ B.lastDeaths = lastDeaths

\* exportState() has returned the state of a battle after an advance with
\* births and deaths, with cells of both colonies
C20_Witness ==
    /\ returned.kind = "exportState"
    /\ battleMode
    /\ generation > 0
    /\ lastBirths > 0
    /\ lastDeaths > 0
    /\ \E k1, k2 \in livingCells :
          MapGet(cellColors, k1) = 1 /\ MapGet(cellColors, k2) = 2

----------------------------------------------------------------------------
(* C21: the snapshot exportState() returned is independent of the engine:  *)
(* no later operation of the engine (mutator, nextGeneration, clear,       *)
(* importState of the snapshot) changes the snapshot's cell set or colour  *)
(* map, and a change made to the snapshot's Set or Map does not change the *)
(* engine, also after importState(s).                                      *)

C21_SnapshotIndependent ==
    [][snapshot.held =>
          /\ engine' # engine => snapshot'.state = snapshot.state
          /\ snapshot'.state # snapshot.state =>
                /\ UNCHANGED engine
                /\ \/ ExportSnapshot
                   \/ \E key \in SnapKeys : SnapshotAdd(key) \/ SnapshotDelete(key)
                   \/ \E key \in SnapKeys, color \in ColonyColors :
                         SnapshotSetColor(key, color)]_vars

\* the engine has been advanced in battle mode after the snapshot was
\* taken: the snapshot holds cells and colours the engine no longer has
C21_Witness ==
    /\ snapshot.held
    /\ battleMode
    /\ returned.kind = "stats"
    /\ generation = snapshot.state.generation + 1
    /\ snapshot.state.livingCells # {}
    /\ DOMAIN snapshot.state.cellColors # {}
    /\ livingCells # snapshot.state.livingCells
    /\ cellColors # snapshot.state.cellColors

----------------------------------------------------------------------------
(* C22: on an empty living set, in either mode, nextGeneration() returns   *)
(* population 0, births 0 and deaths 0 (and an empty captured list in      *)
(* battle mode), leaves the living set empty and increases the generation  *)
(* by 1; on an empty living set getBounds() is null and the other          *)
(* accessors return their empty results.                                   *)

C22_EmptyGrid ==
    [][/\ (livingCells = {} /\ returned'.kind = "stats") =>
             /\ returned'.val.population = 0
             /\ returned'.val.births = 0
             /\ returned'.val.deaths = 0
             /\ battleMode => returned'.val.captured = <<>>
             /\ livingCells' = {}
             /\ generation' = generation + 1
             /\ returned'.val.generation = generation + 1
       /\ livingCells' = {} =>
             /\ getBounds' = "null"
             /\ getPopulation' = 0
             /\ getLivingCells' = {}
             /\ getColoredCells' = {}
             /\ getStats'.population = 0]_vars

\* nextGeneration() has been called in classic mode on an empty grid that
\* still had the counts and the captured list of an earlier battle advance
\* (no death and no living cell: no cell was alive before the call)
C22_Witness ==
    /\ ~battleMode
    /\ returned.kind = "stats"
    /\ livingCells = {}
    /\ returned.val.deaths = 0
    /\ returned.val.births = 0
    /\ generation = 1
    /\ lastCaptured # <<>>

----------------------------------------------------------------------------
(* C23: for every offset (a, b), negative ones included, the 2x2 block     *)
(* {(a,b), (a+1,b), (a,b+1), (a+1,b+1)} is a fixed point of                *)
(* nextGeneration(): the living set is the same after the advance and the  *)
(* advance reports births = 0 and deaths = 0.                              *)

\* the keys of the block with corner (a, b)
BlockKeys(a, b) ==
    {cellToKey(a, b), cellToKey(a + 1, b), cellToKey(a, b + 1), cellToKey(a + 1, b + 1)}

\* the grid is a 2x2 block
IsBlock(living) ==
    /\ Cardinality(living) = 4
    /\ \E pos \in GridPositions : living = BlockKeys(pos[1], pos[2])

C23_BlockStill ==
    [][(returned'.kind = "stats" /\ IsBlock(livingCells)) =>
          /\ livingCells' = livingCells
          /\ returned'.val.births = 0
          /\ returned'.val.deaths = 0
          /\ returned'.val.population = 4
          /\ generation' = generation + 1]_vars

\* the block with corner (-10, -1) has been advanced twice
C23_Witness ==
    /\ returned.kind = "stats"
    /\ generation = 2
    /\ livingCells = BlockKeys(0 - 10, 0 - 1)
    /\ <<"-", "1", "0", ",", "-", "1">> \in livingCells
    /\ <<"-", "9", ",", "0">> \in livingCells

----------------------------------------------------------------------------
(* C24: from the horizontal blinker {(0,0), (1,0), (2,0)} one              *)
(* nextGeneration() yields exactly the vertical column                     *)
(* {(1,-1), (1,0), (1,1)}, which differs from the start, and a second      *)
(* nextGeneration() yields exactly the original set; each of the two       *)
(* advances reports births = 2 and deaths = 2.                             *)

HorizontalBlinker == {cellToKey(0, 0), cellToKey(1, 0), cellToKey(2, 0)}

VerticalBlinker == {cellToKey(1, 0 - 1), cellToKey(1, 0), cellToKey(1, 1)}

C24_Blinker ==
    [][/\ (returned'.kind = "stats" /\ livingCells = HorizontalBlinker) =>
             /\ livingCells' = VerticalBlinker
             /\ livingCells' # livingCells
             /\ returned'.val.births = 2
             /\ returned'.val.deaths = 2
             /\ returned'.val.population = 3
       /\ (returned'.kind = "stats" /\ livingCells = VerticalBlinker) =>
             /\ livingCells' = HorizontalBlinker
             /\ returned'.val.births = 2
             /\ returned'.val.deaths = 2
             /\ returned'.val.population = 3]_vars

\* the blinker placed at the origin in classic mode has been advanced
\* twice and lies as it was placed
C24_Witness ==
    /\ ~battleMode
    /\ returned.kind = "stats"
    /\ generation = 2
    /\ livingCells = HorizontalBlinker
    /\ lastBirths = 2
    /\ lastDeaths = 2

----------------------------------------------------------------------------
(* C25: from the L-tromino {(0,0), (1,0), (0,1)} one nextGeneration()      *)
(* yields exactly {(0,0), (1,0), (0,1), (1,1)}: the population goes from 3 *)
(* to 4 with births = 1 and deaths = 0.                                    *)

Tromino == {cellToKey(0, 0), cellToKey(1, 0), cellToKey(0, 1)}

C25_Tromino ==
    [][(returned'.kind = "stats" /\ livingCells = Tromino) =>
          /\ livingCells' = Tromino \cup {cellToKey(1, 1)}
          /\ getPopulation = 3
          /\ getPopulation' = 4
          /\ returned'.val.population = 4
          /\ returned'.val.births = 1
          /\ returned'.val.deaths = 0]_vars

\* the L-tromino painted at the origin in classic mode has been advanced
\* once
C25_Witness ==
    /\ ~battleMode
    /\ returned.kind = "stats"
    /\ generation = 1
    /\ lastBirths = 1
    /\ lastDeaths = 0
    /\ livingCells = Tromino \cup {cellToKey(1, 1)}

----------------------------------------------------------------------------
(* C26: nextGeneration() is a function of the living set, the colour map,  *)
(* the generation and the battle flag: whatever the other fields hold and  *)
(* in whatever order the living cells were inserted, the living set, the   *)
(* colour map, the generation and the returned statistics are the same,    *)
(* the captured list being compared as a set.                              *)

\* the members of a list
Members(q) == {q[i] : i \in 1..Len(q)}

C26_Deterministic ==
    [][(returned'.kind = "stats" /\ Cardinality(livingCells) <= MaxOrderCells) =>
          \A order \in Orders(livingCells) :
             \A r \in {nextGenerationOf([livingCells |-> livingCells,
                                         cellColors |-> cellColors,
                                         generation |-> generation,
                                         battleMode |-> battleMode], order)} :
                /\ r.livingCells = livingCells'
                /\ r.cellColors = cellColors'
                /\ r.generation = generation'
                /\ returned'.val.generation = r.generation
                /\ returned'.val.population = Cardinality(r.livingCells)
                /\ returned'.val.births = r.births
                /\ returned'.val.deaths = r.deaths
                /\ battleMode =>
                      /\ returned'.val.population1 = Entries(r.cellColors, 1)
                      /\ returned'.val.population2 = Entries(r.cellColors, 2)
                      /\ Members(returned'.val.captured) = Members(r.captured)
                      /\ Len(returned'.val.captured) = Len(r.captured)]_vars

\* a second battle advance of a grid of at most MaxOrderCells cells has
\* captured two cells, after a first advance that left another captured
\* list and other counts
C26_Witness ==
    /\ battleMode
    /\ returned.kind = "stats"
    /\ generation = 2
    /\ Len(lastCaptured) >= 2
    /\ Cardinality(livingCells) - lastBirths + lastDeaths <= MaxOrderCells

----------------------------------------------------------------------------
(* C27: render() runs on every animation tick; the loop calls step() at    *)
(* most once per tick, and only if isRunning is true, the speed is above 0 *)
(* and at least 1000 / speed ms have passed since the last step the loop   *)
(* made; while isRunning is false the loop makes no step and the           *)
(* generation advances only by a manual step, which is ignored while       *)
(* isRunning is true.                                                      *)

\* the step is a call of loop()
TickStep == view'.timestamp # view.timestamp

C27_RenderLoop ==
    [][/\ TickStep =>
             /\ view'.renderedAt = view'.timestamp
             /\ generation' = generation \/ generation' = generation + 1
       /\ (TickStep /\ generation' # generation) =>
             /\ store.isRunning
             /\ view.currentSpeed > 0
             /\ (view'.timestamp - view.lastStepTime) * view.currentSpeed >= MsPerSecond
             /\ view'.lastStepTime = view'.timestamp
       /\ (TickStep /\ generation' = generation) =>
             view'.lastStepTime = view.lastStepTime
       /\ (~store.isRunning /\ TickStep) => UNCHANGED <<engine, store>>
       /\ (~store.isRunning /\ generation' > generation) => KeyStep
       /\ (store.isRunning /\ generation' > generation) => TickStep]_vars

\* the loop has made its second step, at one generation per second, a
\* full second after its first
C27_Witness ==
    /\ store.isRunning
    /\ view.currentSpeed = SpeedMin
    /\ generation = 2
    /\ returned.kind = "stats"
    /\ view.lastStepTime = view.timestamp
    /\ view.renderedAt = view.timestamp
    /\ view.timestamp > MsPerSecond

----------------------------------------------------------------------------
(* C28: in battle mode a living cell without colour entry is treated as    *)
(* colony 1: it counts as a colour-1 neighbour when the colour of a        *)
(* surviving or born cell is chosen, getColoredCells() reports it with     *)
(* colour 1, and when it survives an advance it is recorded as captured,   *)
(* with fromColor 1, exactly when its new colour is 2.                     *)

\* the coordinates of the living cells whose colour entry is col
WithEntry(living, colors, col) ==
    {c \in Coords(living) : KeyOf(c) \in DOMAIN colors /\ colors[KeyOf(c)] = col}

\* the coordinates of the living cells without colour entry
Colourless(living, colors) ==
    {c \in Coords(living) : KeyOf(c) \notin DOMAIN colors}

C28_ColourlessIsColony1 ==
    [][/\ (battleMode /\ returned'.kind = "stats") =>
             \A entry1 \in {WithEntry(livingCells, cellColors, 1)},
                entry2 \in {WithEntry(livingCells, cellColors, 2)},
                none \in {Colourless(livingCells, cellColors)},
                after \in {Coords(livingCells')} :
                /\ InWindow(livingCells', after)
                /\ \A c \in after :
                      cellColors'[KeyOf(c)] =
                         IF Around(c, entry1) + Around(c, none) >= Around(c, entry2)
                         THEN 1 ELSE 2
                /\ \A c \in none \cap after :
                      LET records == {r \in Members(returned'.val.captured) :
                                         r.x = c[1] /\ r.y = c[2]}
                      IN  IF cellColors'[KeyOf(c)] = 2
                          THEN records = {[x |-> c[1], y |-> c[2],
                                           fromColor |-> 1, toColor |-> 2]}
                          ELSE records = {}
       /\ (battleMode /\ returned'.kind = "getColoredCells") =>
             \A none \in {Colourless(livingCells, cellColors)} :
                \A c \in none :
                   {r \in returned'.val : r.x = c[1] /\ r.y = c[2]} =
                      {[x |-> c[1], y |-> c[2], color |-> 1]}]_vars

\* getColoredCells() has been called in battle mode on a grid with a
\* colourless cell and a cell of colony 2
C28_Witness ==
    /\ battleMode
    /\ returned.kind = "getColoredCells"
    /\ \E k1, k2 \in livingCells :
          /\ k1 \notin DOMAIN cellColors
          /\ MapGet(cellColors, k2) = 2
    /\ \E r \in returned.val : r.color = 2

----------------------------------------------------------------------------
(* C29: in both modes every cell alive after nextGeneration() was alive    *)
(* before or is one of the 8 Moore neighbours of a cell that was alive     *)
(* before; a cell with no living cell in its 3x3 neighbourhood is never    *)
(* born, so the bounding box grows by at most 1 in each direction per      *)
(* advance.                                                                *)

C29_Locality ==
    [][returned'.kind = "stats" =>
          \A before \in {Coords(livingCells)}, after \in {Coords(livingCells')} :
             /\ InWindow(livingCells, before)
             /\ InWindow(livingCells', after)
             /\ \A c \in after : c \in before \/ Moore(c) \cap before # {}
             /\ \A c \in Window :
                   ({c} \cup Moore(c)) \cap before = {} => c \notin after
             /\ before = {} => after = {}
             /\ after # {} =>
                   /\ Least({c[1] : c \in after}) >= Least({c[1] : c \in before}) - 1
                   /\ Greatest({c[1] : c \in after}) <= Greatest({c[1] : c \in before}) + 1
                   /\ Least({c[2] : c \in after}) >= Least({c[2] : c \in before}) - 1
                   /\ Greatest({c[2] : c \in after}) <= Greatest({c[2] : c \in before}) + 1]_vars

\* the second advance of a battle has left cells one column and one row
\* outside the cross the grid started on
C29_Witness ==
    /\ battleMode
    /\ returned.kind = "stats"
    /\ generation = 2
    /\ lastBirths > 0
    /\ cellToKey(MaxX + 1, 0) \in livingCells
    /\ cellToKey(0, 0 - 2) \in livingCells

----------------------------------------------------------------------------
(* C30: battle mode refines classic mode on liveness: for every living set *)
(* and every colouring of it, colourless cells included, the living set,   *)
(* the births and the deaths of nextGeneration() in battle mode are those  *)
(* of nextGeneration() in classic mode on the same living set.             *)

C30_BattleRefinesClassic ==
    [][(battleMode /\ returned'.kind = "stats") =>
          \A classic \in {ClassicLoop(cellsToCheck,
                                      [newLivingCells |-> {}, births |-> 0,
                                       deaths |-> 0])} :
             /\ livingCells' = classic.newLivingCells
             /\ lastBirths' = classic.births
             /\ lastDeaths' = classic.deaths
             /\ returned'.val.births = classic.births
             /\ returned'.val.deaths = classic.deaths
             /\ returned'.val.population = Cardinality(classic.newLivingCells)]_vars

\* a battle advance with births, deaths and captures has been made on a
\* grid that held cells of both colonies
C30_Witness ==
    /\ battleMode
    /\ returned.kind = "stats"
    /\ generation = 1
    /\ lastBirths > 0
    /\ lastDeaths > 0
    /\ \E i, j \in 1..Len(lastCaptured) :
          lastCaptured[i].toColor = 1 /\ lastCaptured[j].toColor = 2

----------------------------------------------------------------------------
(* C31: immediately after any nextGeneration() executed in battle mode,    *)
(* from any prior state (living cells without a colour, colour entries of  *)
(* dead cells), the key set of the colour map equals the living set, so    *)
(* population1 + population2 = population in the returned statistics.      *)

C31_ColorKeysAreLiving ==
    [][(battleMode /\ returned'.kind = "stats") =>
          /\ DOMAIN cellColors' = livingCells'
          /\ returned'.val.population = Cardinality(livingCells')
          /\ returned'.val.population1 = LivingOf(livingCells', cellColors', 1)
          /\ returned'.val.population2 = LivingOf(livingCells', cellColors', 2)
          /\ returned'.val.population1 + returned'.val.population2 =
                returned'.val.population]_vars

\* the second advance, made in battle mode, has turned a blinker of cells
\* without a colour into the column through (0, 1), and every living cell
\* has a colour
C31_Witness ==
    /\ battleMode
    /\ returned.kind = "stats"
    /\ generation = 2
    /\ livingCells = {cellToKey(0, 0 - 1), cellToKey(0, 0), cellToKey(0, 1)}
    /\ lastBirths = 2
    /\ lastDeaths = 2
    /\ DOMAIN cellColors = livingCells
    /\ returned.val.population1 = 3

----------------------------------------------------------------------------
(* C32: in battle mode, in every reachable state, the colour populations   *)
(* used by getStats() and by checkBattleResult() equal the numbers of      *)
(* colour-1 and colour-2 cells reported by getColoredCells(); in           *)
(* particular population1 + population2 = population, and                  *)
(* checkBattleResult() reports a draw only when no cell is alive.          *)

\* the number of cells getColoredCells() reports with the colour col
ReportedOf(col) == Cardinality({c \in getColoredCells : c.color = col})

C32_PopulationsConsistent ==
    battleMode =>
        /\ getStats.population1 = ReportedOf(1)
        /\ getStats.population2 = ReportedOf(2)
        /\ checkBattleResult = Verdict(ReportedOf(1), ReportedOf(2))
        /\ getStats.population1 + getStats.population2 = getStats.population
        /\ checkBattleResult = "draw" => livingCells = {}

----------------------------------------------------------------------------
(* C33: the cell mutators setCell, setCells, setColoredCells, toggleCell   *)
(* and killCell leave the generation counter, the last births / deaths     *)
(* counts, the last captured list and the battle flag unchanged, and       *)
(* change the liveness and colour of no cell other than the ones named in  *)
(* the call.                                                               *)

\* the step leaves the counters of the last advance and the mode alone
AdvanceDataKept ==
    UNCHANGED <<generation, lastBirths, lastDeaths, lastCaptured, battleMode>>

\* the step changes the liveness and the colour of no cell outside `named`
OthersKept(named) ==
    /\ livingCells' \ named = livingCells \ named
    /\ \A k \in (DOMAIN cellColors \cup DOMAIN cellColors') \ named :
          /\ k \in DOMAIN cellColors <=> k \in DOMAIN cellColors'
          /\ MapGet(cellColors', k) = MapGet(cellColors, k)

C33_MutatorFrame ==
    [][/\ \A c \in PaintCells, color \in ColorArgs :
             (returned'.kind \in {"void", "boolean"} /\
                (\/ SetCell(c[1], c[2], color)
                 \/ ToggleCell(c[1], c[2], color)
                 \/ KillCell(c[1], c[2]))) =>
                /\ AdvanceDataKept
                /\ OthersKept({KeyOf(c)})
       /\ \A cs \in CellLists :
             (returned'.kind = "void" /\ SetCells(cs)) =>
                /\ AdvanceDataKept
                /\ OthersKept(ListKeys(cs))
       /\ \A cs \in ColoredCellLists :
             (returned'.kind = "void" /\ SetColoredCells(cs)) =>
                /\ AdvanceDataKept
                /\ OthersKept(ListKeys(cs))]_vars

\* toggleCell has made a cell alive on a grid that a battle advance had
\* left with a captured list and other living cells
C33_Witness ==
    /\ battleMode
    /\ returned = [kind |-> "boolean", val |-> TRUE]
    /\ generation > 0
    /\ lastCaptured # <<>>
    /\ lastBirths > 0
    /\ Cardinality(livingCells) >= 3
    /\ \E k \in livingCells : MapGet(cellColors, k) = 2

----------------------------------------------------------------------------
(* C34: after any sequence of store actions (step, setCell, toggleCell,    *)
(* setCells, setColoredCells) since the last reset(), capturedBy1 is the   *)
(* total number of capture records with toColor = 1 emitted by the         *)
(* nextGeneration() calls of the sequence, and capturedBy2 the same for    *)
(* toColor = 2; painting a cell between steps changes neither counter.     *)

\* the claim, step by step: reset() makes both counters 0, a step adds the
\* records the advance has emitted, and no other action changes a counter
C34_CaptureCounters ==
    [][/\ Reset => store'.capturedBy1 = 0 /\ store'.capturedBy2 = 0
       /\ returned'.kind = "stats" =>
             /\ store'.capturedBy1 = store.capturedBy1 + CapturedTo(lastCaptured', 1)
             /\ store'.capturedBy2 = store.capturedBy2 + CapturedTo(lastCaptured', 2)
       /\ (returned'.kind # "stats" /\ ~Reset) =>
             /\ store'.capturedBy1 = store.capturedBy1
             /\ store'.capturedBy2 = store.capturedBy2]_vars

----------------------------------------------------------------------------
(* C35: in every reachable store state in which battleWinner is not null,  *)
(* engine.checkBattleResult() on the current engine state returns that     *)
(* same winner: a declared winner is withdrawn when later painting or      *)
(* stepping makes the battle non-terminal or changes its outcome.          *)

C35_WinnerFresh ==
    store.battleWinner # "null" => checkBattleResult = store.battleWinner

----------------------------------------------------------------------------
(* C36: after every setGameMode or toggleGameMode call the battle flag of  *)
(* the engine equals (gameMode = 'battle'), battleWinner is null, and a    *)
(* switch to classic has emptied the colour map of the engine.             *)

C36_ModeSync ==
    [][/\ battleMode' = (store'.gameMode = "battle")
       /\ ((\E mode \in GameModes : SetGameMode(mode)) \/ ToggleGameMode) =>
             store'.battleWinner = "null"
       /\ store'.gameMode # store.gameMode =>
             /\ (\E mode \in GameModes : SetGameMode(mode)) \/ ToggleGameMode
             /\ store'.gameMode = "classic" => DOMAIN cellColors' = {}
             /\ UNCHANGED <<livingCells, generation>>]_vars

\* the mode is classic again over an advanced grid whose cells had been
\* counted in battle mode (population1 still holds that count): the cells
\* live on without colours and no winner is shown
C36_Witness ==
    /\ store.gameMode = "classic"
    /\ ~battleMode
    /\ returned = Void
    /\ store.battleWinner = "null"
    /\ generation > 0
    /\ store.generation = generation
    /\ store.population1 > 0
    /\ livingCells # {}
    /\ DOMAIN cellColors = {}

----------------------------------------------------------------------------
(* C37: through the actions of the view only (mode change with its reset,  *)
(* click / drag painting with the paint colour, pattern placement with     *)
(* setColoredCells in battle mode and setCells in classic mode, step,      *)
(* reset) every state in which gameMode = 'battle' has every living cell   *)
(* coloured 1 or 2 and no colour entry for a dead cell.                    *)

C37_ViewColoured ==
    store.gameMode = "battle" =>
        /\ \A key \in livingCells :
              key \in DOMAIN cellColors /\ cellColors[key] \in ColonyColors
        /\ DOMAIN cellColors \subseteq livingCells

\* a cell of colony 2 has been painted next to cells of colony 1 on a grid
\* that a battle step had advanced
C37_Witness ==
    /\ store.gameMode = "battle"
    /\ battleMode
    /\ returned = Void
    /\ generation > 0
    /\ store.generation = generation
    /\ Cardinality(livingCells) >= 3
    /\ \E k1, k2 \in livingCells : cellColors[k1] = 1 /\ cellColors[k2] = 2

----------------------------------------------------------------------------
(* C38: from any reachable store state, after reset() the engine is empty  *)
(* with generation 0, isRunning is false, the generation, population,      *)
(* births, deaths, population1, population2, capturedBy1 and capturedBy2   *)
(* stores are 0, populationHistory is empty and battleWinner is null;      *)
(* gameMode, paintColor, speed and the zoom / pan stores are unchanged.    *)

C38_StoreReset ==
    [][Reset =>
          /\ livingCells' = {}
          /\ DOMAIN cellColors' = {}
          /\ generation' = 0
          /\ getStats'.population = 0
          /\ ~store'.isRunning
          /\ \A name \in {"generation", "population", "births", "deaths",
                          "population1", "population2", "capturedBy1",
                          "capturedBy2"} : store'[name] = 0
          /\ store'.populationHistory = <<>>
          /\ store'.battleWinner = "null"
          /\ store'.gameMode = store.gameMode
          /\ store'.paintColor = store.paintColor
          /\ battleMode' = battleMode
          /\ view' = view]_vars

\* reset() has been called in battle mode, with paint colour 2, after a
\* step that captured a cell: the captured cells of that step are still
\* in their store, everything else is as at the start
C38_Witness ==
    /\ store.gameMode = "battle"
    /\ store.paintColor = 2
    /\ store.capturedCells # <<>>
    /\ store.populationHistory = <<>>
    /\ store.capturedBy1 + store.capturedBy2 = 0
    /\ store.generation = 0
    /\ generation = 0
    /\ livingCells = {}
    /\ returned = Void

----------------------------------------------------------------------------
(* C39: populationHistory is a bounded FIFO: every updateStats call (after *)
(* a step or after any cell edit) appends the current population at the    *)
(* end, the length never exceeds MAX_HISTORY_LENGTH, and when the bound is  *)
(* exceeded only the oldest entry is dropped, so the history is always the *)
(* most recent populations in order.                                       *)

\* every step of SpecHistory other than reset() is a call of updateStats
C39_HistoryFifo ==
    [][/\ Len(store'.populationHistory) <= MaxHistory
       /\ ~Reset =>
             \A old \in {store.populationHistory}, new \in {store'.populationHistory} :
                /\ new # <<>>
                /\ new[Len(new)] = Cardinality(livingCells')
                /\ Len(old) < MaxHistory =>
                      new = Append(old, Cardinality(livingCells'))
                /\ Len(old) = MaxHistory =>
                      /\ Len(new) = MaxHistory
                      /\ \A i \in 1..(MaxHistory - 1) : new[i] = old[i + 1]]_vars

\* the fourth updateStats since the start, after three cells were painted
\* and the grid advanced: the population 1 of the first call has been
\* dropped
C39_Witness ==
    /\ returned.kind = "stats"
    /\ store.populationHistory = <<2, 3, 4>>
    /\ Cardinality(livingCells) = 4

====
